---- MODULE Spec2Model ----
(***************************************************************************)
(* Model of the PlanSo synchronisation tool (src/reference/PlanSo/tool.py): *)
(* the sync orchestrator cmd_sync, the per-record pipeline sync_one, the     *)
(* fetchers and the SQLite persistence layer with its full-text triggers,    *)
(* and of the booking proxy (src/reference/Brunkhorst/proxy_server.py): its   *)
(* reservation store and the handlers reserve, confirm and full booking.      *)
(***************************************************************************)
EXTENDS Integers, Sequences, FiniteSets, TLC

\* ------------------------------------------------------------------------
\* Bounds of the model
\* ------------------------------------------------------------------------
MaxRecords == 3
MaxRuns == 2
MaxJobs == 2
MaxCalls == 2
MaxAppointments == 2

\* ------------------------------------------------------------------------
\* Data domains
\* ------------------------------------------------------------------------
\* proj.get("ID") of a project object without an 'ID' key
NoID == 0

\* a parts row as the parsers produce it: natural key (part_no, description)
Part(no, d, q) == [part_no |-> no, description |-> d, qty |-> q]
PA1 == Part("A", "d", 1)
PA2 == Part("A", "d", 2)
PB1 == Part("B", "d", 1)

\* a row found by the data-attribute pattern: a part number and nothing else
AttrPart(no) == Part(no, "", 0)

\* what the remote system serves for one record: the plate shown in the form,
\* the employees named in the shop view, the rows of the parts tab as they
\* stand in its HTML and the pattern that finds them, the rows a candidate
\* endpoint lists
Remote(pl, emp, ps, pa, rs) ==
  [plate |-> pl, emp_map |-> emp, parts |-> ps, path |-> pa, rows |-> rs]

RemoteData ==
  { Remote("p1", {}, << >>, "parts_table", <<Part("B", "d", 2)>>),
    Remote("p1", {<<"e1", "n1">>}, <<PA1>>, "parts_table", <<Part("B", "d", 2)>>),
    Remote("p2", {<<"e1", "n2">>}, <<PA2, PB1>>, "parts_table", <<Part("B", "d", 2)>>) }

\* parts tabs and candidate lists that name a part twice
PartsData ==
  { Remote("p1", {}, ps, pa, rs) :
      ps \in {<<PA1>>, <<PA1, PA2>>, <<PA1, PB1, PA2>>},
      pa \in {"parts_table", "generic_table"},
      rs \in {<<PB1>>, <<PB1, Part("B", "d", 2)>>} }
  \cup { Remote("p1", {}, <<AttrPart("A"), AttrPart("B"), AttrPart("A")>>, "data_attrs", <<PB1>>) }

\* the section endpoints of fetch_order_sections, one of each kind:
\* prefetched by sync_one, fetched on demand, binary
PrefetchedSections == {"shop_view_single"}
FetchedSections == {"details", "images"}
BinarySections == {"images"}

\* the command lines of a sync run: --jobs, --with-parts, --full,
\* --include-binary
ArgsOf(jobs, modes) ==
  { [jobs |-> j, with_parts |-> m[1], full |-> m[2], include_binary |-> m[3]] :
      j \in jobs, m \in modes }

\* the enumerations parse_projects_payload can return: objects with an 'ID'
\* (record i has the id i), and at most one object that has only a
\* 'short_name'
ListsUpTo(n) ==
  { s \in UNION { [1 .. k -> 0 .. n] : k \in 1 .. n } :
      /\ \A i \in 1 .. Len(s) : s[i] \in {NoID, i}
      /\ Cardinality({i \in 1 .. Len(s) : s[i] = NoID}) <= 1 }

\* The orchestration is explored over several records and workers with one
\* remote answer per record and all endpoints but the required ones
\* answering; the store is explored over several serial runs on one record
\* with all remote answers, all modes and failing endpoints; the full-text
\* index over several serial runs on up to two records.
SyncProfile ==
  [runs |-> 1,
   args |-> ArgsOf(1 .. MaxJobs, {<<FALSE, FALSE, FALSE>>, <<FALSE, TRUE, FALSE>>}),
   lists |-> ListsUpTo(MaxRecords),
   data |-> {Remote("p1", {<<"e1", "n1">>}, <<PA1>>, "parts_table", << >>)},
   cand |-> {"none"},
   up |-> {FetchedSections},
   parse |-> {"ok", "exception"}]

StoreProfile ==
  [runs |-> MaxRuns,
   args |-> ArgsOf({1}, {<<FALSE, FALSE, FALSE>>, <<TRUE, FALSE, FALSE>>,
                         <<FALSE, TRUE, FALSE>>, <<FALSE, TRUE, TRUE>>}),
   lists |-> {<<1>>},
   data |-> RemoteData,
   cand |-> {"none", "fail", "rows"},
   up |-> SUBSET FetchedSections,
   parse |-> {"ok", "re.error", "exception"}]

FtsProfile ==
  [runs |-> MaxRuns,
   args |-> ArgsOf({1}, {<<FALSE, FALSE, FALSE>>}),
   lists |-> ListsUpTo(2),
   data |-> RemoteData,
   cand |-> {"none"},
   up |-> {FetchedSections},
   parse |-> {"ok", "re.error", "exception"}]

PartsProfile ==
  [runs |-> 1,
   args |-> ArgsOf({1}, {<<TRUE, FALSE, FALSE>>, <<FALSE, TRUE, FALSE>>}),
   lists |-> {<<1>>},
   data |-> PartsData,
   cand |-> {"none", "rows", "csv"},
   up |-> {FetchedSections},
   parse |-> {"ok", "exception"}]

\* two records whose pages name the same employee id with different names,
\* synced with one worker and with several
ModesProfile ==
  [runs |-> 1,
   args |-> ArgsOf(1 .. MaxJobs, {<<FALSE, TRUE, FALSE>>}),
   lists |-> ListsUpTo(2),
   data |-> {Remote("p1", {<<"e1", "n1">>}, <<PA1>>, "parts_table", << >>),
             Remote("p2", {<<"e1", "n2">>, <<"e2", "n2">>}, <<PA2, PB1>>, "parts_table", << >>)},
   cand |-> {"none"},
   up |-> {FetchedSections},
   parse |-> {"ok"}]

EmptyStore ==
  [orders |-> {}, employees |-> {}, parts |-> {}, order_sections |-> {}, orders_fts |-> {}]

\* no requests.Session object
NoSession == [by |-> 0, no |-> 0]

\* as_completed(futures) before the for loop enters it
NoIter == [entered |-> FALSE, early |-> {}, finished |-> << >>]

\* the process has not exited
NoExit == -1

\* no result yet
Unset == [kind |-> "unset"]

NoRes ==
  [ok |-> FALSE, pid |-> NoID, row |-> [id |-> NoID, plate |-> "", last_synced_at |-> 0],
   emp_map |-> {}, parts_list |-> << >>, sections |-> {}, warn |-> FALSE,
   error |-> "none", swallowed |-> {}, collected |-> << >>]

VARIABLES
  pc,         \* cmd_sync: "idle", "running", "draining", "done", "aborted"
  now,        \* the clock _now_iso reads; it advances with every run
  args,       \* the arguments of the current run
  projects,   \* the records fetch_project_stations enumerated
  submitted,  \* number of records handed to the executor (parallel branch)
  st,         \* per record: its pipeline state
  res,        \* per record: the value sync_one returned
  wtask,      \* per worker thread: the record it runs sync_one for, or 0
  sess,       \* per worker thread: whether _thread_local.sess exists
  cur,        \* the record whose result the orchestrator is applying, or 0
  apc,        \* position inside the apply block of cmd_sync
  ok,         \* cmd_sync: ok
  fail,       \* cmd_sync: fail
  con,        \* the SQLite connection: committed database and open transaction
  applied,    \* the records whose results were committed in this run, in order
  exc,        \* the exception that left cmd_sync, or "none"
  lastres,    \* per record id: the result of its last committed sync
  ac,         \* the iterator as_completed(futures) of the parallel branch
  made,       \* per worker thread: the sessions _mk_session made for it
  sess_local, \* per worker thread: sess_local of the sync_one call it runs
  rc,         \* the exit status of the process, NoExit while it runs
  fn,         \* the function that is called outside a sync run
  inp,        \* its argument
  out,        \* its result, Unset before the call
  ACTIVE_RESERVATIONS, \* booking proxy: the module-level dict call_id -> appointment id
  reserved,   \* per appointment id the booking system issued: the call that reserved it
  sent,       \* the last confirmAppointment the proxy sent to the booking system
  flows,      \* per call: the position of its full_booking_flow request
  response,   \* the last response full_booking_flow returned
  steps       \* the steps the full_booking_flow request of this response ran

vars ==
  <<pc, now, args, projects, submitted, st, res, wtask, sess, cur, apc, ok, fail, con,
    applied, exc, lastres, ac, made, sess_local, rc, fn, inp, out,
    ACTIVE_RESERVATIONS, reserved, sent, flows, response, steps>>

\* the variables of the booking proxy
booking == <<ACTIVE_RESERVATIONS, reserved, sent, flows, response, steps>>

\* the variables a sync run leaves alone: those of a call of one of the pure
\* functions or of a query, and those of the booking proxy
pure == <<fn, inp, out, booking>>

N == Len(projects)
Terminal == {"Persisted", "Failed"}
Parallel == args.jobs > 1

\* ------------------------------------------------------------------------
\* Persistence layer
\* ------------------------------------------------------------------------
\* the indexed columns of an orders row, as the triggers copy them
FtsEntry(r) == [rowid |-> r.id, plate |-> r.plate]

orders_ai(fts, new) == fts \cup {FtsEntry(new)}

orders_ad(fts, old) == fts \ {FtsEntry(old)}

\* the update trigger without its 'delete' statement
orders_au_nodelete(fts, old, new) == orders_ai(fts, new)

orders_au(fts, old, new) == orders_ai(orders_ad(fts, old), new)

\* INSERT INTO orders ... ON CONFLICT(id) DO UPDATE SET ...
upsert_order(s, row) ==
  LET old == {o \in s.orders : o.id = row.id} IN
    IF old = {}
      THEN [s EXCEPT !.orders = @ \cup {row}, !.orders_fts = orders_ai(@, row)]
      ELSE LET o == CHOOSE x \in old : TRUE IN
             [s EXCEPT !.orders = (@ \ old) \cup {row},
                       !.orders_fts = orders_au(@, o, row)]

db_upsert_order(c, row) == [c EXCEPT !.tx = upsert_order(@, row)]

\* INSERT INTO employees ... ON CONFLICT(id) DO UPDATE SET name=excluded.name
db_upsert_employees(c, emp) ==
  [c EXCEPT !.tx.employees =
     {e \in @ : \A n \in emp : n[1] # e.id} \cup {[id |-> n[1], name |-> n[2]] : n \in emp}]

PartRow(order_id, p) ==
  [order_id |-> order_id, part_no |-> p.part_no, description |-> p.description, qty |-> p.qty]

SamePartKey(a, b) ==
  a.order_id = b.order_id /\ a.part_no = b.part_no /\ a.description = b.description

\* INSERT OR REPLACE INTO parts, row by row
RECURSIVE insert_parts(_, _, _)
insert_parts(rows, order_id, parts) ==
  IF parts = << >> THEN rows
  ELSE LET r == PartRow(order_id, Head(parts)) IN
         insert_parts({x \in rows : ~SamePartKey(x, r)} \cup {r}, order_id, Tail(parts))

\* db_replace_parts committing its own statements
db_replace_parts_autocommit(c, order_id, parts) ==
  LET t == [c.tx EXCEPT !.parts =
              insert_parts({x \in @ : x.order_id # order_id}, order_id, parts)] IN
    [db |-> t, tx |-> t]

db_replace_parts(c, order_id, parts) ==
  [c EXCEPT !.tx.parts = insert_parts({x \in @ : x.order_id # order_id}, order_id, parts)]

\* a plain INSERT into a table without the primary key
db_upsert_sections_insert(c, order_id, sections, t) ==
  [c EXCEPT !.tx.order_sections =
     @ \cup {[order_id |-> order_id, section |-> s.section, raw_text |-> s.raw_text,
              last_synced_at |-> t] : s \in sections}]

\* INSERT OR REPLACE INTO order_sections, one statement per fetched section
db_upsert_sections(c, order_id, sections, t) ==
  [c EXCEPT !.tx.order_sections =
     {x \in @ : ~(x.order_id = order_id /\ \E s \in sections : s.section = x.section)}
       \cup {[order_id |-> order_id, section |-> s.section, raw_text |-> s.raw_text,
              last_synced_at |-> t] : s \in sections}]

\* DELETE FROM orders WHERE id = ?, with the trigger orders_ad
delete_order(s, id) ==
  LET old == {o \in s.orders : o.id = id} IN
    IF old = {} THEN s
    ELSE LET o == CHOOSE x \in old : TRUE IN
           [s EXCEPT !.orders = @ \ old, !.orders_fts = orders_ad(@, o)]

\* con.commit() left out: the statements stay in the open transaction
commit_later(c) == c

commit(c) == [db |-> c.tx, tx |-> c.tx]

\* a connection that goes away with an open transaction loses it
rollback(c) == [db |-> c.db, tx |-> c.db]

\* ------------------------------------------------------------------------
\* Booking proxy: the state after the start of the process
\* ------------------------------------------------------------------------
Calls == 1 .. MaxCalls

\* data.get('appointment_id') of a request that carries none; ACTIVE_RESERVATIONS.get
\* of a key that is not stored
None == 0

\* no confirmAppointment was sent yet
NoSent == [route |-> "none", appointment_id |-> None, request_id |-> None,
           own |-> None]

NoResponse == [call |-> 0, route |-> "none", success |-> FALSE, error_code |-> "none",
               step |-> "none", appointment_id |-> None]

NoFlow == [running |-> FALSE, steps |-> << >>, appointment_id |-> None]

\* the proxy has started and has served no request: ACTIVE_RESERVATIONS = {}
Started ==
  /\ ACTIVE_RESERVATIONS = << >>
  /\ reserved = << >>
  /\ sent = NoSent
  /\ flows = [c \in Calls |-> NoFlow]
  /\ response = NoResponse
  /\ steps = << >>

\* ------------------------------------------------------------------------
\* cmd_sync: start of a run
\* ------------------------------------------------------------------------
NoRun ==
  /\ pc = "idle"
  /\ now = 0
  /\ args = [jobs |-> 1, with_parts |-> FALSE, full |-> FALSE, include_binary |-> FALSE]
  /\ projects = << >>
  /\ submitted = 0
  /\ st = << >>
  /\ res = << >>
  /\ wtask = [w \in 1 .. MaxJobs |-> 0]
  /\ sess = [w \in 1 .. MaxJobs |-> NoSession]
  /\ cur = 0
  /\ apc = "idle"
  /\ ok = 0
  /\ fail = 0
  /\ con = [db |-> EmptyStore, tx |-> EmptyStore]
  /\ applied = << >>
  /\ exc = "none"
  /\ lastres = [p \in 1 .. MaxRecords |-> NoRes]
  /\ ac = NoIter
  /\ made = [w \in 1 .. MaxJobs |-> 0]
  /\ sess_local = [w \in 1 .. MaxJobs |-> NoSession]
  /\ rc = NoExit

Init ==
  /\ NoRun
  /\ Started
  /\ fn = "sync"
  /\ inp = Unset
  /\ out = Unset

\* a function of the tool called on its own: main has parsed the arguments,
\* the function has not returned yet
InitCall(f, inputs) ==
  /\ NoRun
  /\ Started
  /\ fn = f
  /\ inp \in inputs
  /\ out = Unset

\* the function returns (or raises) result
Call(f, result) ==
  /\ fn = f
  /\ out = Unset
  /\ out' = result
  /\ UNCHANGED <<pc, now, args, projects, submitted, st, res, wtask, sess, cur, apc, ok, fail,
                 con, applied, exc, lastres, ac, made, sess_local, rc, fn, inp, booking>>

\* db_connect, fetch_project_stations, ok = 0, fail = 0; every run is a new
\* process, so no thread and no thread-local session survives from the last
StartRun(P) ==
  /\ fn = "sync"
  /\ pc \in {"idle", "done", "aborted"}
  /\ now < P.runs
  /\ \E a \in P.args, ps \in P.lists :
       /\ args' = a
       /\ projects' = ps
       /\ st' = [i \in 1 .. Len(ps) |-> "Pending"]
       /\ res' = [i \in 1 .. Len(ps) |-> NoRes]
  /\ pc' = "running"
  /\ now' = now + 1
  /\ submitted' = 0
  /\ wtask' = [w \in 1 .. MaxJobs |-> 0]
  /\ sess' = [w \in 1 .. MaxJobs |-> NoSession]
  /\ cur' = 0
  /\ apc' = "idle"
  /\ ok' = 0
  /\ fail' = 0
  /\ con' = rollback(con)
  /\ applied' = << >>
  /\ exc' = "none"
  /\ ac' = NoIter
  /\ made' = [w \in 1 .. MaxJobs |-> 0]
  /\ sess_local' = [w \in 1 .. MaxJobs |-> NoSession]
  /\ rc' = NoExit
  /\ UNCHANGED <<lastres, pure>>

\* parallel branch: futures.append(ex.submit(sync_one, p))
Submit ==
  /\ pc = "running"
  /\ Parallel
  /\ submitted < N
  /\ submitted' = submitted + 1
  /\ UNCHANGED <<pc, now, args, projects, st, res, wtask, sess, cur, apc, ok, fail, con, applied, exc, lastres, ac, made, sess_local, rc, pure>>

\* ------------------------------------------------------------------------
\* sync_one, run by a worker thread (by the main thread when jobs <= 1)
\* ------------------------------------------------------------------------
\* the loop of the serial branch reaches record i; the executor hands queued
\* work to its threads in submission order
Queued(i) ==
  IF Parallel
    THEN i <= submitted /\ \A j \in 1 .. (i - 1) : st[j] # "Pending"
    ELSE pc = "running" /\ cur = 0 /\ \A j \in 1 .. (i - 1) : st[j] \in Terminal

Workers == 1 .. args.jobs

\* the k-th session object made on the thread w
_mk_session(w, k) == [by |-> w, no |-> k]

\* one session kept in a module global and handed to every thread
_get_thread_session_global(tls, w, k) ==
  IF \E v \in DOMAIN tls : tls[v] # NoSession
    THEN tls[CHOOSE v \in DOMAIN tls : tls[v] # NoSession]
    ELSE _mk_session(w, k + 1)

\* getattr(_thread_local, "sess", None); made when the thread has none
_get_thread_session(tls, w, k) ==
  IF tls[w] # NoSession THEN tls[w] ELSE _mk_session(w, k + 1)

\* a future finishes: as_completed's waiter notes it (the order of the
\* futures that finish before the iterator is entered is kept here only to
\* state the order of completion; the iterator itself sees them as a set)
Completion(i) ==
  IF Parallel /\ pc = "running" THEN [ac EXCEPT !.finished = Append(@, i)] ELSE ac

\* pid = int(proj.get("ID")) stands before the try block: without an 'ID' the
\* TypeError leaves sync_one. Otherwise the thread's session is looked up.
Start(w, i) ==
  /\ pc \in {"running", "draining"}
  /\ st[i] = "Pending"
  /\ wtask[w] = 0
  /\ Queued(i)
  /\ IF projects[i] = NoID
       THEN /\ st' = [st EXCEPT ![i] = "Raised"]
            /\ IF Parallel
                 THEN UNCHANGED <<pc, con, exc, rc>>
                 ELSE /\ pc' = "aborted" /\ con' = rollback(con) /\ exc' = "TypeError"
                      /\ rc' = 1
            /\ ac' = Completion(i)
            /\ UNCHANGED <<wtask, sess, made, sess_local>>
       ELSE /\ st' = [st EXCEPT ![i] = "Fetching"]
            /\ wtask' = [wtask EXCEPT ![w] = i]
            /\ LET s == _get_thread_session(sess, w, made[w]) IN
                 /\ sess' = [sess EXCEPT ![w] = s]
                 /\ made' = [made EXCEPT ![w] = IF s = _mk_session(w, @ + 1) THEN @ + 1 ELSE @]
                 /\ sess_local' = [sess_local EXCEPT ![w] = s]
            /\ UNCHANGED <<pc, con, exc, ac, rc>>
  /\ UNCHANGED <<now, args, projects, submitted, res, cur, apc, ok, fail, applied, lastres, pure>>

NeedParts == args.with_parts \/ args.full

\* the section endpoints add_section really calls
CalledSections == IF args.include_binary THEN FetchedSections ELSE FetchedSections \ BinarySections

\* the except clause returning a success value
Failure_ok(pid, e) == [NoRes EXCEPT !.ok = TRUE, !.pid = pid, !.error = e]

\* except Exception as e: return {"ok": False, "pid": pid, ...}
Failure(pid, e) == [NoRes EXCEPT !.pid = pid, !.error = e]

KeyOf(p) == <<p.part_no, p.description>>

\* for p in parts: if key not in uniq: uniq[key] = p
RECURSIVE uniq_first(_)
uniq_first(parts) ==
  IF parts = << >> THEN << >>
  ELSE LET init == uniq_first(SubSeq(parts, 1, Len(parts) - 1))
           p == parts[Len(parts)]
       IN IF \E k \in DOMAIN init : KeyOf(init[k]) = KeyOf(p) THEN init ELSE Append(init, p)

\* {key: p for p in parts}: a key keeps its place and takes the later value
RECURSIVE uniq_last(_)
uniq_last(parts) ==
  IF parts = << >> THEN << >>
  ELSE LET init == uniq_last(SubSeq(parts, 1, Len(parts) - 1))
           p == parts[Len(parts)]
       IN IF \E k \in DOMAIN init : KeyOf(init[k]) = KeyOf(p)
            THEN [k \in DOMAIN init |-> IF KeyOf(init[k]) = KeyOf(p) THEN p ELSE init[k]]
            ELSE Append(init, p)

\* the parts-table rows are made unique on the spot; the rows of the two
\* fallback patterns by the dictionary at the end of the function
_parse_parts_from_html(rows, path) ==
  IF path = "parts_table" THEN uniq_first(rows) ELSE uniq_last(rows)

\* the rows of a candidate endpoint: the dictionaries of a JSON "data" list
\* or the lines of a CSV export
CandidateRows(d, cand) == IF cand \in {"rows", "csv"} THEN d.rows ELSE << >>

\* the parts list of fetch_parts_deep: the rows parsed from the parts tab,
\* and the rows of a candidate endpoint appended to them as they come
parts_of(d, cand) ==
  IF ~NeedParts THEN << >>
  ELSE _parse_parts_from_html(d.parts, d.path) \o CandidateRows(d, cand)

\* the rows in the order in which fetch_parts_deep meets them
collected_of(d, cand) ==
  IF ~NeedParts THEN << >> ELSE d.parts \o CandidateRows(d, cand)

\* fetch_order_sections: prefetched payloads are stored as they are, a called
\* endpoint contributes a section only when it answers with status 200
sections_of(d, up) ==
  IF ~args.full THEN {}
  ELSE {[section |-> n, raw_text |-> d.plate] : n \in PrefetchedSections \cup (CalledSections \cap up)}

\* the remote calls of one record. primary names the required call that
\* fails, if any; cand is what the candidate parts endpoints do; up is the
\* set of section endpoints that answer.
Fetch(w, i, P) ==
  /\ pc \in {"running", "draining"}
  /\ wtask[w] = i
  /\ st[i] = "Fetching"
  /\ \E d \in P.data,
        primary \in {"ok", "shop_view_single", "visual_forms_plain", "get_parts"},
        cand \in P.cand,
        up \in P.up :
       /\ primary = "get_parts" => NeedParts
       /\ cand # "none" => NeedParts /\ primary = "ok"
       /\ up # FetchedSections => args.full /\ primary = "ok" /\ up \subseteq CalledSections
       /\ IF primary # "ok"
            THEN /\ res' = [res EXCEPT ![i] = Failure(projects[i], "transport")]
                 /\ st' = [st EXCEPT ![i] = "Returned"]
                 /\ wtask' = [wtask EXCEPT ![w] = 0]
                 /\ sess_local' = [sess_local EXCEPT ![w] = NoSession]
                 /\ ac' = Completion(i)
            ELSE /\ res' = [res EXCEPT ![i] =
                      [ok |-> TRUE, pid |-> projects[i],
                       row |-> [id |-> projects[i], plate |-> d.plate, last_synced_at |-> now],
                       emp_map |-> d.emp_map,
                       parts_list |-> parts_of(d, cand),
                       collected |-> collected_of(d, cand),
                       sections |-> sections_of(d, up),
                       warn |-> FALSE,
                       error |-> "none",
                       swallowed |-> (IF cand = "fail" THEN {"candidate"} ELSE {})
                                       \cup (IF args.full THEN CalledSections \ up ELSE {})]]
                 /\ st' = [st EXCEPT ![i] = "Parsing"]
                 /\ UNCHANGED <<wtask, sess_local, ac>>
  /\ UNCHANGED <<pc, now, args, projects, submitted, sess, cur, apc, ok, fail, con, applied, exc, lastres, made, rc, pure>>

\* sync_one without the except re.error clause
Parse_uncaught(w, i, P) ==
  /\ pc \in {"running", "draining"}
  /\ wtask[w] = i
  /\ st[i] = "Parsing"
  /\ \E outcome \in P.parse :
       res' = [res EXCEPT ![i] =
                 CASE outcome = "ok" -> @
                   [] outcome = "re.error" -> Failure(projects[i], "re.error")
                   [] outcome = "exception" -> Failure(projects[i], "pipeline")]
  /\ st' = [st EXCEPT ![i] = "Returned"]
  /\ wtask' = [wtask EXCEPT ![w] = 0]
  /\ sess_local' = [sess_local EXCEPT ![w] = NoSession]
  /\ ac' = Completion(i)
  /\ UNCHANGED <<pc, now, args, projects, submitted, sess, cur, apc, ok, fail, con, applied, exc, lastres, made, rc, pure>>

\* parse_visual_forms_plain_fields and build_order_row. A re.error of the
\* field parser leaves fields = {} (the plate falls back to short_name) and
\* sets warn; any other exception is caught by sync_one's except clause.
Parse(w, i, P) ==
  /\ pc \in {"running", "draining"}
  /\ wtask[w] = i
  /\ st[i] = "Parsing"
  /\ \E outcome \in P.parse :
       res' = [res EXCEPT ![i] =
                 CASE outcome = "ok" -> @
                   [] outcome = "re.error" -> [@ EXCEPT !.warn = TRUE, !.row.plate = "sn"]
                   [] outcome = "exception" -> Failure(projects[i], "pipeline")]
  /\ st' = [st EXCEPT ![i] = "Returned"]
  /\ wtask' = [wtask EXCEPT ![w] = 0]
  /\ sess_local' = [sess_local EXCEPT ![w] = NoSession]
  /\ ac' = Completion(i)
  /\ UNCHANGED <<pc, now, args, projects, submitted, sess, cur, apc, ok, fail, con, applied, exc, lastres, made, rc, pure>>

\* ------------------------------------------------------------------------
\* cmd_sync: applying the results
\* ------------------------------------------------------------------------
\* res = sync_one(p) / res = fut.result(): an exception stored in a future is
\* raised again here and leaves cmd_sync; the executor's with block then
\* waits for the threads. A failed result is counted.
Remove(q, i) == SelectSeq(q, LAMBDA x : x # i)

\* the iterator yielding whatever future has finished, in any order
Yields_any(i) == TRUE

\* the future as_completed yields next: first those that had finished when
\* the iterator was entered (a set, in no particular order), then the others
\* as they finish
Yields(i) ==
  IF ac.early # {} THEN i \in ac.early
  ELSE ac.finished # << >> /\ i = Head(ac.finished)

\* for fut in as_completed(futures): the generator starts with the first
\* next() and takes the futures that have finished by then
AsCompleted ==
  /\ pc = "running"
  /\ Parallel
  /\ submitted = N
  /\ ~ac.entered
  /\ ac' = [ac EXCEPT !.entered = TRUE,
                      !.early = {ac.finished[k] : k \in 1 .. Len(ac.finished)}]
  /\ UNCHANGED <<pc, now, args, projects, submitted, st, res, wtask, sess, cur, apc, ok, fail,
                 con, applied, exc, lastres, made, sess_local, rc, pure>>

TakeResult(i) ==
  /\ pc = "running"
  /\ cur = 0
  /\ Parallel => ac.entered /\ Yields(i)
  /\ st[i] \in {"Returned", "Raised"}
  /\ ac' = IF Parallel
             THEN [ac EXCEPT !.early = @ \ {i}, !.finished = Remove(@, i)]
             ELSE ac
  /\ IF st[i] = "Raised"
       THEN /\ pc' = "draining"
            /\ exc' = "TypeError"
            /\ UNCHANGED <<st, cur, apc, fail>>
       ELSE IF res[i].ok
         THEN /\ cur' = i
              /\ apc' = "employees"
              /\ UNCHANGED <<pc, st, fail, exc>>
         ELSE /\ fail' = fail + 1
              /\ st' = [st EXCEPT ![i] = "Failed"]
              /\ UNCHANGED <<pc, cur, apc, exc>>
  /\ UNCHANGED <<now, args, projects, submitted, res, wtask, sess, ok, con, applied, lastres, made, sess_local, rc, pure>>

\* if emp_map: db_upsert_employees(con, emp_map)
ApplyEmployees ==
  /\ pc = "running" /\ cur # 0 /\ apc = "employees"
  /\ con' = IF res[cur].emp_map # {} THEN db_upsert_employees(con, res[cur].emp_map) ELSE con
  /\ apc' = "parts"
  /\ UNCHANGED <<pc, now, args, projects, submitted, st, res, wtask, sess, cur, ok, fail, applied, exc, lastres, ac, made, sess_local, rc, pure>>

\* if parts_list: db_replace_parts(con, pid, parts_list)
ApplyParts ==
  /\ pc = "running" /\ cur # 0 /\ apc = "parts"
  /\ con' = IF res[cur].parts_list # << >>
              THEN db_replace_parts(con, res[cur].pid, res[cur].parts_list)
              ELSE con
  /\ apc' = "sections"
  /\ UNCHANGED <<pc, now, args, projects, submitted, st, res, wtask, sess, cur, ok, fail, applied, exc, lastres, ac, made, sess_local, rc, pure>>

\* if sections: db_upsert_sections(con, pid, sections)
ApplySections ==
  /\ pc = "running" /\ cur # 0 /\ apc = "sections"
  /\ con' = IF res[cur].sections # {}
              THEN db_upsert_sections(con, res[cur].pid, res[cur].sections, now)
              ELSE con
  /\ apc' = "order"
  /\ UNCHANGED <<pc, now, args, projects, submitted, st, res, wtask, sess, cur, ok, fail, applied, exc, lastres, ac, made, sess_local, rc, pure>>

\* db_upsert_order(con, res["row"])
ApplyOrder ==
  /\ pc = "running" /\ cur # 0 /\ apc = "order"
  /\ con' = db_upsert_order(con, res[cur].row)
  /\ apc' = "commit"
  /\ UNCHANGED <<pc, now, args, projects, submitted, st, res, wtask, sess, cur, ok, fail, applied, exc, lastres, ac, made, sess_local, rc, pure>>

\* the commit without ok += 1
Commit_uncounted ==
  /\ pc = "running" /\ cur # 0 /\ apc = "commit"
  /\ con' = commit(con)
  /\ st' = [st EXCEPT ![cur] = "Persisted"]
  /\ applied' = Append(applied, cur)
  /\ cur' = 0
  /\ apc' = "idle"
  /\ lastres' = [lastres EXCEPT ![res[cur].pid] = res[cur]]
  /\ UNCHANGED <<pc, now, args, projects, submitted, res, wtask, sess, ok, fail, exc, ac, made, sess_local, rc, pure>>

\* con.commit(); ok += 1
Commit ==
  /\ pc = "running" /\ cur # 0 /\ apc = "commit"
  /\ con' = commit(con)
  /\ ok' = ok + 1
  /\ st' = [st EXCEPT ![cur] = "Persisted"]
  /\ applied' = Append(applied, cur)
  /\ cur' = 0
  /\ apc' = "idle"
  /\ lastres' = [lastres EXCEPT ![res[cur].pid] = res[cur]]
  /\ UNCHANGED <<pc, now, args, projects, submitted, res, wtask, sess, fail, exc, ac, made, sess_local, rc, pure>>

\* the statement the apply block is about to execute
WritesAt(r, p) ==
  CASE p = "employees" -> r.emp_map # {}
    [] p = "parts" -> r.parts_list # << >>
    [] p = "sections" -> r.sections # {}
    [] OTHER -> TRUE

\* the apply block wrapped in a handler that counts the record as failed and
\* goes on with the next one
StoreError_isolated ==
  /\ pc = "running" /\ cur # 0
  /\ WritesAt(res[cur], apc)
  /\ con' = rollback(con)
  /\ fail' = fail + 1
  /\ st' = [st EXCEPT ![cur] = "Failed"]
  /\ cur' = 0
  /\ apc' = "idle"
  /\ exc' = "sqlite3.Error"
  /\ UNCHANGED <<pc, now, args, projects, submitted, res, wtask, sess, ok, applied, lastres, ac, made, sess_local, rc, pure>>

\* a statement of the apply block, or the commit, raises sqlite3.Error (or
\* the process dies there): nothing catches it, cmd_sync is left, and the
\* open transaction is lost with the connection
StoreError ==
  /\ pc = "running" /\ cur # 0
  /\ WritesAt(res[cur], apc)
  /\ pc' = IF Parallel THEN "draining" ELSE "aborted"
  /\ rc' = IF Parallel THEN rc ELSE 1
  /\ con' = rollback(con)
  /\ cur' = 0
  /\ apc' = "idle"
  /\ exc' = "sqlite3.Error"
  /\ UNCHANGED <<now, args, projects, submitted, st, res, wtask, sess, ok, fail, applied, lastres, ac, made, sess_local, pure>>

\* ThreadPoolExecutor.__exit__: shutdown(wait=True) lets the queued and the
\* running calls of sync_one finish before the exception leaves cmd_sync
Drained ==
  /\ pc = "draining"
  /\ \A i \in 1 .. N : st[i] \notin {"Pending", "Fetching", "Parsing"}
  /\ pc' = "aborted"
  /\ rc' = 1
  /\ UNCHANGED <<now, args, projects, submitted, st, res, wtask, sess, cur, apc, ok, fail, con, applied, exc, lastres, ac, made, sess_local, pure>>

\* return 0 if fail == 0 else 1
exit_status(f) == IF f = 0 THEN 0 ELSE 1

\* "Done. OK=... FAIL=..."; main returns what cmd_sync returns
Finish ==
  /\ pc = "running"
  /\ cur = 0
  /\ \A i \in 1 .. N : st[i] \in Terminal
  /\ pc' = "done"
  /\ rc' = exit_status(fail)
  /\ UNCHANGED <<now, args, projects, submitted, st, res, wtask, sess, cur, apc, ok, fail, con, applied, exc, lastres, ac, made, sess_local, pure>>

\* the serial branch of cmd_sync (args.jobs <= 1)
Serial(P) ==
  \/ StartRun(P)
  \/ \E w \in Workers, i \in 1 .. N : Start(w, i)
  \/ \E w \in Workers, i \in 1 .. N : Fetch(w, i, P)
  \/ \E w \in Workers, i \in 1 .. N : Parse(w, i, P)
  \/ \E i \in 1 .. N : TakeResult(i)
  \/ ApplyEmployees
  \/ ApplyParts
  \/ ApplySections
  \/ ApplyOrder
  \/ Commit
  \/ StoreError
  \/ Finish

\* both branches: the executor adds the submission of the records and the
\* wait for the threads when an exception leaves the with block
Step(P) ==
  \/ Serial(P)
  \/ Submit
  \/ AsCompleted
  \/ Drained

\* between two runs an orders row is deleted from the database (the tool has
\* no command for it; the trigger orders_ad is there for this statement)
DeleteOrder ==
  /\ pc \in {"done", "aborted"}
  /\ \E o \in con.db.orders :
       con' = commit([con EXCEPT !.tx = delete_order(@, o.id)])
  /\ UNCHANGED <<pc, now, args, projects, submitted, st, res, wtask, sess, cur, apc, ok, fail,
                 applied, exc, lastres, ac, made, sess_local, rc, pure>>

Next == Step(SyncProfile)

Spec == Init /\ [][Next]_vars

NextStore == Serial(StoreProfile)

SpecStore == Init /\ [][NextStore]_vars

NextFts == Serial(FtsProfile) \/ DeleteOrder

SpecFts == Init /\ [][NextFts]_vars

NextModes == Step(ModesProfile)

SpecModes == Init /\ [][NextModes]_vars

NextParts == Serial(PartsProfile)

SpecParts == Init /\ [][NextParts]_vars

\* ------------------------------------------------------------------------
\* _build_section_payload
\* ------------------------------------------------------------------------
MaxSubs == 2

\* a JSON value as json.loads returns it: its Python type and what
\* distinguishes its values here
J(t, v) == [t |-> t, v |-> v]

\* dict.get on a key that is not there
Absent == J("null", "absent")

\* bool(j) is False
Falsy ==
  {Absent, J("null", ""), J("str", ""), J("num", "0"), J("list", "empty"), J("dict", "empty")}

\* the values a sub-section's "content" may have
Contents == Falsy \cup {J("str", "<p>"), J("num", "5"), J("list", "items"), J("dict", "items")}

\* the values of the "html" object: a value that is no object, or an object
\* with or without "content"
SubValues ==
  {[isdict |-> FALSE, content |-> Absent]} \cup {[isdict |-> TRUE, content |-> c] : c \in Contents}

Subs == UNION {[1 .. k -> SubValues] : k \in 0 .. MaxSubs}

\* a response body: what text.strip().startswith, json.loads and
\* _looks_like_html see of it. kind is "object" ({...}), "array" ([...]),
\* "scalar" (a JSON text such as 5 or "abc"), "broken" ({ not followed by
\* JSON), "html" (<...), "plain"; html is the type of the object's "html".
Body(kind, html, subs) == [kind |-> kind, html |-> html, subs |-> subs]

Bodies ==
  {Body(k, "absent", << >>) : k \in {"array", "scalar", "broken", "html", "plain"}}
    \cup {Body("object", h, << >>) : h \in {"absent", "str", "other"}}
    \cup {Body("object", "dict", ss) : ss \in Subs}

ContentTypes == {"application/json", "Application/JSON; charset=utf-8", "text/html", ""}

PayloadInputs == {[text |-> t, content_type |-> c] : t \in Bodies, c \in ContentTypes}

Raise(e) == [kind |-> "raise", shape |-> e]

\* payload = {"content_type": ..., "raw_text": text, "data_json": {shape: ...}}
Payload(shape) == [kind |-> "payload", shape |-> shape]

\* json.loads: the value, or None after an exception
_safe_json_loads(text) ==
  IF text.kind \in {"object", "array", "scalar"} THEN text.kind ELSE "None"

\* html = _html.unescape(html or ""), then the regular expressions: a value
\* that is true and no string raises TypeError there, outside the handler
\* of re.error
_parse_html_snapshot(html) ==
  IF html \notin Falsy /\ html.t # "str" THEN Raise("TypeError") ELSE Payload("parsed")

\* sections[k] = {"meta": ..., "parsed": _parse_html_snapshot(content)} for
\* the values that are objects, sections[k] = v for the others
SectionOf(v) ==
  IF v.isdict
    THEN _parse_html_snapshot(IF v.content \in Falsy THEN J("str", "") ELSE v.content)
    ELSE Payload("value")

_build_section_payload(text, content_type) ==
  LET j == IF content_type \in {"application/json", "Application/JSON; charset=utf-8"}
                \/ text.kind \in {"object", "array", "broken"}
             THEN _safe_json_loads(text)
             ELSE "None"
  IN CASE j = "object" /\ text.html = "str" -> _parse_html_snapshot(J("str", "<p>"))
       [] j = "object" /\ text.html = "dict" ->
            IF \E k \in DOMAIN text.subs : SectionOf(text.subs[k]).kind = "raise"
              THEN Raise("TypeError")
              ELSE Payload("sections")
       [] j = "object" /\ text.html \in {"absent", "other"} -> Payload("json")
       [] j = "array" -> Payload("json")
       [] j \in {"scalar", "None"} /\ text.kind = "html" -> _parse_html_snapshot(J("str", "<p>"))
       [] OTHER -> Payload("text")

BuildSectionPayload ==
  Call("_build_section_payload", _build_section_payload(inp.text, inp.content_type))

SpecPayload == InitCall("_build_section_payload", PayloadInputs) /\ [][BuildSectionPayload]_vars

\* ------------------------------------------------------------------------
\* Text: a string is the sequence of its characters
\* ------------------------------------------------------------------------
Digits == <<"0", "1", "2", "3", "4", "5", "6", "7", "8", "9">>

\* the pattern \d+ matches the whole of s
AllDigits(s) == s # << >> /\ \A k \in DOMAIN s : \E d \in 1 .. 10 : Digits[d] = s[k]

\* int(s) for a string of digits
RECURSIVE int(_)
int(s) ==
  IF s = << >> THEN 0
  ELSE 10 * int(SubSeq(s, 1, Len(s) - 1)) + ((CHOOSE d \in 1 .. 10 : Digits[d] = s[Len(s)]) - 1)

\* the number n in w digits, as %0wd prints it
Pad(n, w) == [k \in 1 .. w |-> Digits[((n \div (10 ^ (w - k))) % 10) + 1]]

RECURSIVE strip(_)
strip(s) ==
  IF s # << >> /\ Head(s) = " " THEN strip(Tail(s))
  ELSE IF s # << >> /\ s[Len(s)] = " " THEN strip(SubSeq(s, 1, Len(s) - 1))
  ELSE s

\* s.split(sep)
RECURSIVE split(_, _)
split(s, sep) ==
  IF \A k \in DOMAIN s : s[k] # sep THEN <<s>>
  ELSE LET i == CHOOSE k \in DOMAIN s : s[k] = sep /\ \A h \in 1 .. (k - 1) : s[h] # sep
       IN <<SubSeq(s, 1, i - 1)>> \o split(SubSeq(s, i + 1, Len(s)), sep)

\* None where a string is expected
Null == <<"None">>

\* ------------------------------------------------------------------------
\* _parse_german_date_or_datetime
\* ------------------------------------------------------------------------
\* datetime.date(y, mo, d) and datetime.datetime(y, mo, d, hh, mm, ss) do not
\* raise ValueError
IsDateTime(y, mo, d, hh, mm, ss) ==
  LET leap == y % 4 = 0 /\ (y % 100 # 0 \/ y % 400 = 0)
      days == CASE mo \in {4, 6, 9, 11} -> 30
                [] mo = 2 -> IF leap THEN 29 ELSE 28
                [] OTHER -> 31
  IN /\ y \in 1 .. 9999 /\ mo \in 1 .. 12 /\ d \in 1 .. days
     /\ hh \in 0 .. 23 /\ mm \in 0 .. 59 /\ ss \in 0 .. 59

\* date.isoformat()
date_isoformat(y, mo, d) == Pad(y, 4) \o <<"-">> \o Pad(mo, 2) \o <<"-">> \o Pad(d, 2)

\* datetime.isoformat(timespec="seconds")
datetime_isoformat(y, mo, d, hh, mm, ss) ==
  date_isoformat(y, mo, d) \o <<"T">> \o Pad(hh, 2) \o <<":">> \o Pad(mm, 2) \o <<":">> \o Pad(ss, 2)

\* re.fullmatch of a string against fields of digits of the given lengths
\* joined by sep
Fields(s, sep, lens) ==
  LET f == split(s, sep)
  IN /\ Len(f) = Len(lens)
     /\ \A k \in DOMAIN f : AllDigits(f[k]) /\ Len(f[k]) \in lens[k]

_parse_german_date_or_datetime(s0) ==
  LET s == strip(s0)
      none == [date |-> Null, datetime |-> Null]
      w == split(s, " ")
      dt == w[1]
      tm == w[Len(w)]
      f == split(dt, ".")
      g == split(tm, ":")
  IN CASE s0 = << >> -> none
       [] Fields(s, "-", <<{4}, {2}, {2}>>) -> [date |-> s, datetime |-> Null]
       [] Fields(s, ".", <<{1, 2}, {1, 2}, {4}>>) ->
            IF IsDateTime(int(f[3]), int(f[2]), int(f[1]), 0, 0, 0)
              THEN [date |-> date_isoformat(int(f[3]), int(f[2]), int(f[1])), datetime |-> Null]
              ELSE none
       [] /\ Len(w) >= 2
          /\ \A k \in 2 .. (Len(w) - 1) : w[k] = << >>
          /\ Fields(dt, ".", <<{1, 2}, {1, 2}, {4}>>)
          /\ Fields(tm, ":", <<{1, 2}, {2}, {2}>>) ->
            IF IsDateTime(int(f[3]), int(f[2]), int(f[1]), int(g[1]), int(g[2]), int(g[3]))
              THEN [date |-> date_isoformat(int(f[3]), int(f[2]), int(f[1])),
                    datetime |-> datetime_isoformat(int(f[3]), int(f[2]), int(f[1]),
                                                    int(g[1]), int(g[2]), int(g[3]))]
              ELSE none
       [] OTHER -> none

\* a number as it is written in a local date: padded to two digits or not
Written(n, padded) == IF padded \/ n > 9 THEN Pad(n, 2) ELSE Pad(n, 1)

\* the strings the function is called with, each with the shape it was
\* written in and the numbers it was written from
DateInputs ==
  LET Ys == {0, 2024, 2025}
      Ms == {0, 2, 12, 13}
      Ds == {0, 1, 29, 30, 31, 32}
      At(t, sh, y, mo, d, hh, mm, ss) ==
        [text |-> t, shape |-> sh, y |-> y, mo |-> mo, d |-> d, hh |-> hh, mm |-> mm, ss |-> ss]
      Other(t) == At(t, "other", 0, 0, 0, 0, 0, 0)
  IN {At(sp \o Pad(y, 4) \o <<"-">> \o Pad(mo, 2) \o <<"-">> \o Pad(d, 2), "iso", y, mo, d, 0, 0, 0) :
        y \in Ys, mo \in Ms, d \in Ds, sp \in {<< >>, <<" ">>}}
     \cup {At(Written(d, pd) \o <<".">> \o Written(mo, pm) \o <<".">> \o Pad(y, 4), "de", y, mo, d, 0, 0, 0) :
        y \in Ys, mo \in Ms, d \in Ds, pd \in BOOLEAN, pm \in BOOLEAN}
     \cup {At(Written(d, FALSE) \o <<".">> \o Written(2, TRUE) \o <<".">> \o Pad(y, 4) \o sp
               \o Written(hh, ph) \o <<":">> \o Pad(mm, 2) \o <<":">> \o Pad(ss, 2),
               "dedt", y, 2, d, hh, mm, ss) :
        y \in {2024, 2025}, d \in {1, 29}, hh \in {0, 9, 23, 24}, mm \in {0, 59, 60}, ss \in {0, 60},
        ph \in BOOLEAN, sp \in {<<" ">>, <<" ", " ">>}}
     \cup {Other(t) : t \in
           { << >>, <<" ">>, <<"a", "b", "c">>,
             <<"2", "0", "2", "5", "-", "1", "-", "2">>,
             <<"1", ".", "2", ".", "2", "5">>,
             <<"1", ".", "2", ".", "2", "0", "2", "5", " ", "1", ":", "2", ":", "3">>,
             <<"1", ".", "2", ".", "2", "0", "2", "5", "x">>,
             <<"1", "/", "2", "/", "2", "0", "2", "5">>,
             <<"2", "0", "2", "5", "-", "1", "2", "-", "1", "8", "T", "1", "0", ":", "0", "0", ":", "0", "0">>,
             <<"1", ".", "2", ".", "2", "0", "2", "5", "1", "0", ":", "0", "0", ":", "0", "0">> }}

ParseDate == Call("_parse_german_date_or_datetime", _parse_german_date_or_datetime(inp.text))

SpecDate == InitCall("_parse_german_date_or_datetime", DateInputs) /\ [][ParseDate]_vars

\* ------------------------------------------------------------------------
\* _to_float_de
\* ------------------------------------------------------------------------
\* str.lower()
lower(s) ==
  LET up == <<"A", "B", "C", "D", "E", "F", "G", "H", "I", "J", "K", "L", "M",
               "N", "O", "P", "Q", "R", "S", "T", "U", "V", "W", "X", "Y", "Z", "Ä", "Ö", "Ü">>
      lo == <<"a", "b", "c", "d", "e", "f", "g", "h", "i", "j", "k", "l", "m",
               "n", "o", "p", "q", "r", "s", "t", "u", "v", "w", "x", "y", "z", "ä", "ö", "ü">>
  IN [k \in DOMAIN s |->
        IF \E u \in DOMAIN up : up[u] = s[k] THEN lo[CHOOSE u \in DOMAIN up : up[u] = s[k]] ELSE s[k]]

\* re.search(r"(w1|w2|...)", text, re.IGNORECASE) for plain words
search(words, text) ==
  \E w \in words : \E k \in 1 .. (Len(text) - Len(w) + 1) :
    lower(SubSeq(text, k, k + Len(w) - 1)) = w

\* a float: None, nan, inf, -inf, or the number num / den
Float(kind, num, den) == [kind |-> kind, num |-> num, den |-> den]

\* float(t) of Python: sign, then inf, infinity or nan in any case, or digits
\* (single underscores between digits allowed) with an optional point and an
\* optional exponent; ValueError (None here) for anything else
float(t) ==
  LET signed == t # << >> /\ Head(t) \in {"+", "-"}
      sgn == IF signed /\ Head(t) = "-" THEN -1 ELSE 1
      u == lower(IF signed THEN Tail(t) ELSE t)
      grouped == \A k \in DOMAIN u :
                   u[k] = "_" => /\ k > 1 /\ k < Len(u)
                                 /\ AllDigits(<<u[k - 1]>>) /\ AllDigits(<<u[k + 1]>>)
      v == SelectSeq(u, LAMBDA c : c # "_")
      me == split(v, "e")
      m == split(me[1], ".")
      ip == m[1]
      fp == IF Len(m) = 2 THEN m[2] ELSE << >>
      x == IF Len(me) = 2 THEN me[2] ELSE <<"0">>
      xs == IF x # << >> /\ Head(x) \in {"+", "-"} THEN Tail(x) ELSE x
      e == (IF x # << >> /\ Head(x) = "-" THEN 0 - int(xs) ELSE int(xs)) - Len(fp)
      n == sgn * int(ip \o fp)
  IN CASE u \in {<<"i", "n", "f">>, <<"i", "n", "f", "i", "n", "i", "t", "y">>} ->
            Float(IF sgn = 1 THEN "inf" ELSE "-inf", 0, 1)
       [] u = <<"n", "a", "n">> -> Float("nan", 0, 1)
       [] /\ grouped
          /\ Len(me) <= 2 /\ Len(m) <= 2
          /\ AllDigits(ip \o fp)
          /\ AllDigits(xs) ->
            IF e >= 0 THEN Float("float", n * (10 ^ e), 1) ELSE Float("float", n, 10 ^ (0 - e))
       [] OTHER -> Float("None", 0, 1)

_to_float_de(s) ==
  LET t == strip(s)
      dotless == SelectSeq(t, LAMBDA c : c # ".")
  IN IF t = << >> THEN Float("None", 0, 1)
     ELSE float([k \in DOMAIN dotless |-> IF dotless[k] = "," THEN "." ELSE dotless[k]])

\* the strings the function is called with: local decimals (shape "decimal",
\* worth units / 10 ^ scale), the same followed by something that is no
\* part of a number, and other texts
DecimalInputs ==
  LET At(t, sh, u, sc) == [text |-> t, shape |-> sh, units |-> u, scale |-> sc]
      Ints == { <<<<"0">>, 0>>, <<<<"1">>, 1>>, <<<<"1", "1">>, 11>>,
                <<<<"1", ".", "2", "3", "4">>, 1234>>,
                <<<<"1", ".", "2", "3", "4", ".", "5", "6", "7">>, 1234567>> }
      Fracs == { <<<< >>, 0, 0>>, <<<<",", "5">>, 5, 1>>, <<<<",", "3", "0">>, 30, 2>>,
                 <<<<",", "5", "6">>, 56, 2>> }
      Tails == { <<"e", "1">>, <<"E", "2">>, <<"_", "0">>, <<"x">>, <<" ", "E", "U", "R">> }
  IN {At(sp \o i[1] \o f[1] \o sp, "decimal", i[2] * (10 ^ f[3]) + f[2], f[3]) :
        i \in Ints, f \in Fracs, sp \in {<< >>, <<" ">>}}
     \cup {At(i[1] \o f[1] \o r, "residue", 0, 0) : i \in Ints, f \in Fracs, r \in Tails}
     \cup {At(t, "residue", 0, 0) : t \in
           { << >>, <<" ">>, <<"a", "b", "c">>, <<"n", "a", "n">>, <<"N", "a", "N">>,
             <<"i", "n", "f">>, <<"-", "i", "n", "f">>, <<"I", "n", "f", "i", "n", "i", "t", "y">>,
             <<"1", "_", "_", "0">>, <<"_", "1">>, <<"1", ",", "2", ",", "3">>, <<"-">>, <<",">>,
             <<"1", " ", "2">>, <<"x", "1">> }}

ToFloat == Call("_to_float_de", _to_float_de(inp.text))

SpecDecimal == InitCall("_to_float_de", DecimalInputs) /\ [][ToFloat]_vars

\* ------------------------------------------------------------------------
\* parse_station
\* ------------------------------------------------------------------------
MaxToken == 4

\* the class [a-zA-Z_]
WordChars ==
  { "a", "b", "c", "d", "e", "f", "g", "h", "i", "j", "k", "l", "m",
    "n", "o", "p", "q", "r", "s", "t", "u", "v", "w", "x", "y", "z",
    "A", "B", "C", "D", "E", "F", "G", "H", "I", "J", "K", "L", "M",
    "N", "O", "P", "Q", "R", "S", "T", "U", "V", "W", "X", "Y", "Z", "_" }

\* the pair (station_id, station_state); None is the empty set
Station(id, state) == [station_id |-> id, station_state |-> state]

\* re.fullmatch(r"(\d+)\@([a-zA-Z_]*)", ...): the word may be empty
StationMatch_star(g) ==
  /\ Len(g) = 2
  /\ AllDigits(g[1])
  /\ \A k \in DOMAIN g[2] : g[2][k] \in WordChars

\* re.fullmatch(r"(\d+)\@([a-zA-Z_]+)", ...) matches the text cut at its '@'
StationMatch(g) ==
  /\ Len(g) = 2
  /\ AllDigits(g[1])
  /\ g[2] # << >> /\ \A k \in DOMAIN g[2] : g[2][k] \in WordChars

parse_station(s) ==
  LET g == split(strip(s), "@")
  IN IF s = << >> \/ ~StationMatch(g) THEN Station({}, {})
     ELSE Station({int(g[1])}, {lower(g[2])})

\* every text of at most MaxToken of these characters
StationInputs ==
  LET Chars == {"4", "0", "@", "a", "F", "_", " "}
  IN UNION {[1 .. n -> Chars] : n \in 0 .. MaxToken}

ParseStation == Call("parse_station", parse_station(inp))

SpecStation == InitCall("parse_station", StationInputs) /\ [][ParseStation]_vars

\* ------------------------------------------------------------------------
\* cmd_query
\* ------------------------------------------------------------------------
\* --limit, default=200
DefaultLimit == 200

MaxExtra == 2

\* SELECT rowid FROM orders_fts WHERE orders_fts MATCH ? LIMIT 200
FtsLimit == 200

\* an orders row: shop_date 0 is NULL, later dates are larger; plate stands
\* for the text columns
Order(id, shop_date, missing_parts, plate) ==
  [id |-> id, shop_date |-> shop_date, missing_parts |-> missing_parts, plate |-> plate]

\* a character of the class [A-Za-z0-9]
alnum(c) == (c \in WordChars /\ c # "_") \/ \E d \in DOMAIN Digits : Digits[d] = c

\* re.findall(r"[A-Za-z0-9]+(?:-[A-Za-z0-9]+)*", raw): tok is the match that
\* is being read
RECURSIVE findall(_, _)
findall(raw, tok) ==
  IF raw = << >> THEN (IF tok = << >> THEN << >> ELSE <<tok>>)
  ELSE IF alnum(Head(raw)) THEN findall(Tail(raw), Append(tok, Head(raw)))
  ELSE IF Head(raw) = "-" /\ tok # << >> /\ Len(raw) > 1 /\ alnum(raw[2])
    THEN findall(Tail(raw), Append(tok, "-"))
  ELSE (IF tok = << >> THEN << >> ELSE <<tok>>) \o findall(Tail(raw), << >>)

\* the rows whose indexed text holds every quoted token as a phrase: the
\* index splits text at every character that is no letter or digit and
\* compares without case
matches(orders, tokens) ==
  LET words(text) == SelectSeq(split([k \in DOMAIN text |-> IF alnum(text[k]) THEN text[k] ELSE " "], " "),
                               LAMBDA w : w # << >>)
      phrase(text, tok) ==
        \E k \in 1 .. (Len(words(text)) - Len(words(tok)) + 1) :
          \A j \in DOMAIN words(tok) : lower(words(text)[k + j - 1]) = lower(words(tok)[j])
  IN {r \in orders : \A t \in DOMAIN tokens : phrase(r.plate, tokens[t])}

\* fts_rows: the first FtsLimit rowids of the matching rows (the index is
\* read in rowid order), None when the MATCH raises sqlite3.OperationalError
fts_rows(db, tokens) ==
  IF ~db.fts THEN {}
  ELSE LET found == {r.id : r \in matches(db.orders, tokens)}
       IN {i \in found : Cardinality({j \in found : j < i}) < FtsLimit}

\* col LIKE '%val%'
like(col, val) == val = << >> \/ search({lower(val)}, col)

\* ORDER BY shop_date DESC, id DESC puts a before b (NULL is the smallest value)
Before(a, b) == a.shop_date > b.shop_date \/ (a.shop_date = b.shop_date /\ a.id > b.id)

order_by(rows) ==
  LET ranked == {<<Cardinality({q \in rows : Before(q, r)}) + 1, r>> : r \in rows}
  IN [k \in 1 .. Cardinality(rows) |-> (CHOOSE p \in ranked : p[1] = k)[2]]

\* LIMIT n of SQLite: a negative n is no limit
limit(rows, n) == IF n < 0 \/ n >= Len(rows) THEN rows ELSE SubSeq(rows, 1, n)

\* the rows cmd_query renders: argparse gives args.limit its default
cmd_query(a, db) ==
  LET parsed == [a EXCEPT !.limit = IF @ = {} THEN DefaultLimit ELSE CHOOSE n \in @ : TRUE]
      raw == strip(parsed.text)
      tokens == findall(raw, << >>)
      ids == IF tokens # << >> THEN fts_rows(db, tokens) ELSE {}
      where == {r \in db.orders :
                  /\ parsed.plate # << >> => like(r.plate, parsed.plate)
                  /\ parsed.missing_parts => r.missing_parts = 1
                  /\ (parsed.text # << >> /\ ids = {}) => like(r.plate, raw)
                  /\ ids # {} => r.id \in ids}
  IN [rows |-> limit(order_by(where), parsed.limit)]

\* tables of a few rows and of about DefaultLimit rows, with distinct dates,
\* equal dates and rows without a date; --limit absent or given
QueryInputs ==
  LET Sizes == (0 .. MaxExtra) \cup ((DefaultLimit - 1) .. (DefaultLimit + MaxExtra))
      Dates == [same |-> [i \in 1 .. (DefaultLimit + MaxExtra) |-> 1],
                mixed |-> [i \in 1 .. (DefaultLimit + MaxExtra) |-> i % 3]]
      Limits == {{}, {-1}, {0}, {1}, {DefaultLimit}, {DefaultLimit + 1}, {1000}}
  IN {[db |-> [orders |-> {Order(i, Dates[d][i], IF mp THEN 1 ELSE i % 2, << >>) : i \in 1 .. n},
               fts |-> TRUE],
       args |-> [limit |-> l, missing_parts |-> m, text |-> << >>, plate |-> << >>]] :
        n \in Sizes, d \in {"same", "mixed"}, mp \in BOOLEAN, l \in Limits, m \in BOOLEAN}

Query == Call("cmd_query", cmd_query(inp.args, inp.db))

SpecQuery == InitCall("cmd_query", QueryInputs) /\ [][Query]_vars

\* free-text queries, with and without a plate filter, on tables of up to
\* two rows and on tables of about FtsLimit rows that all hold the word
\* asked for, the plate asked for being in the last rows only; with an
\* index that answers and with one that raises
TextInputs ==
  LET Plates == {<<"B", "B", "-", "S", "K", " ", "2", "3", "0", "7">>, <<"B", "B", " ", "S">>, <<"g", "o", "l", "f">>}
      Texts == {<<"B", "B", "-", "S", "K">>, <<"b", "b">>, <<"B">>, <<"g", "o", "l", "f", " ", "B", "B">>, <<"-">>, <<"z", "z">>, <<" ", "s", "k", " ">>, <<"2", "3", "0", "7", " ", "B", "B">>}
      Small == {{}} \cup {{Order(1, 1, 0, p)} : p \in Plates}
                    \cup {{Order(1, 1, 0, p), Order(2, 1, 1, q)} : p \in Plates, q \in Plates}
      Large == {{Order(i, 1, 0, IF i <= n - x THEN <<"g", "o", "l", "f">> ELSE <<"g", "o", "l", "f", " ", "B", "B">>) : i \in 1 .. n} :
                  n \in (FtsLimit - 1) .. (FtsLimit + MaxExtra), x \in 1 .. MaxExtra}
      Args(t, p) == [limit |-> {}, missing_parts |-> FALSE, text |-> t, plate |-> p]
  IN {[db |-> [orders |-> o, fts |-> f], args |-> Args(t, p)] :
        o \in Small, f \in BOOLEAN, t \in Texts, p \in {<< >>, <<"S">>}}
     \cup {[db |-> [orders |-> o, fts |-> TRUE], args |-> Args(<<"g", "o", "l", "f">>, p)] :
        o \in Large, p \in {<< >>, <<"B", "B">>}}

SpecText == InitCall("cmd_query", TextInputs) /\ [][Query]_vars

\* ------------------------------------------------------------------------
\* parse_visual_forms_plain_fields, _parse_html_label_value_pairs
\* ------------------------------------------------------------------------
MaxFields == 3

\* a form fragment is read as the sequence of its labels, each with the value
\* of its control ("" when the control is empty); the dict is a set of
\* (label, value) pairs. The loop over the labels: skip tells whether a label
\* already in out is passed over, blank whether an empty value is stored.
RECURSIVE collect_fields(_, _, _)
collect_fields(labels, skip, blank) ==
  IF labels = << >> THEN {}
  ELSE LET seen == collect_fields(SubSeq(labels, 1, Len(labels) - 1), skip, blank)
           label == labels[Len(labels)][1]
           val == labels[Len(labels)][2]
       IN IF label = "" \/ (skip /\ \E f \in seen : f[1] = label) \/ (val = "" /\ ~blank)
            THEN seen
            ELSE {f \in seen : f[1] # label} \cup {<<label, val>>}

\* without BeautifulSoup: if label and label not in out: out[label] = val;
\* with it: out[label] = ... for every .field block
parse_visual_forms_plain_fields(labels, bs4) ==
  [fields |-> collect_fields(labels, ~bs4, TRUE)]

\* both branches: if not label or label in out: continue ... if val: out[label] = val
_parse_html_label_value_pairs(labels, bs4) ==
  [fields |-> collect_fields(labels, TRUE, FALSE)]

\* fragments of up to MaxFields labels, parsed with and without BeautifulSoup
FieldInputs ==
  LET Occ == {"Kennzeichen", "Halter"} \X {"", "a", "b"}
  IN {[labels |-> l, bs4 |-> b] : l \in UNION {[1 .. n -> Occ] : n \in 0 .. MaxFields}, b \in BOOLEAN}

ParseFields ==
  \/ Call("parse_visual_forms_plain_fields", parse_visual_forms_plain_fields(inp.labels, inp.bs4))
  \/ Call("_parse_html_label_value_pairs", _parse_html_label_value_pairs(inp.labels, inp.bs4))

SpecFields ==
  /\ \/ InitCall("parse_visual_forms_plain_fields", FieldInputs)
     \/ InitCall("_parse_html_label_value_pairs", FieldInputs)
  /\ [][ParseFields]_vars

\* ------------------------------------------------------------------------
\* _parse_parts_from_html: is_missing of a part row
\* ------------------------------------------------------------------------
\* the row without the last assignment
is_missing_unforced(status_flags, status_icon, status_code) ==
  LET is_to_order == "order_parts" \in status_flags
      is_ordered == "bestellt" \in status_flags
      is_delivered == "delivered" \in status_flags
      is_backorder == "ruckstand" \in status_flags
      status_text == IF status_icon # << >> THEN status_icon ELSE status_code
      first == is_backorder \/ (~is_delivered /\ (is_to_order \/ is_ordered))
  IN [is_missing |-> first \/ search({<<"o", "f", "f", "e", "n">>, <<"f", "e", "h", "l", "t">>, <<"r", "ü", "c", "k", "s", "t", "a", "n", "d">>, <<"b", "a", "c", "k", "o", "r", "d", "e", "r">>}, status_text)]

\* the derivation of is_missing, the same text in the tree-based and in the
\* regex-based parser; status_flags holds the actions of the checked inputs
is_missing(status_flags, status_icon, status_code) ==
  LET is_to_order == "order_parts" \in status_flags
      is_ordered == "bestellt" \in status_flags
      is_delivered == "delivered" \in status_flags
      is_backorder == "ruckstand" \in status_flags
      status_text == IF status_icon # << >> THEN status_icon ELSE status_code
      first == is_backorder \/ (~is_delivered /\ (is_to_order \/ is_ordered))
      second == IF ~first /\ search({<<"o", "f", "f", "e", "n">>, <<"f", "e", "h", "l", "t">>, <<"r", "ü", "c", "k", "s", "t", "a", "n", "d">>, <<"b", "a", "c", "k", "o", "r", "d", "e", "r">>}, status_text) THEN TRUE ELSE first
  IN [is_missing |-> IF is_delivered /\ ~is_backorder THEN FALSE ELSE second]

\* every combination of the checked inputs with icon titles and data-status
\* values, each with whether it holds one of the keywords; both parsers
MissingInputs ==
  LET Icons == {<<<<>>, FALSE>>, <<<<"O", "f", "f", "e", "n">>, TRUE>>, <<<<"g", "e", "l", "i", "e", "f", "e", "r", "t">>, FALSE>>, <<<<"R", "Ü", "C", "K", "S", "T", "A", "N", "D">>, TRUE>>, <<<<"T", "e", "i", "l", " ", "f", "e", "h", "l", "t">>, TRUE>>, <<<<"h", "o", "f", "f", "e", "n">>, TRUE>>}
      Codes == {<<<<>>, FALSE>>, <<<<"B", "a", "c", "k", "o", "r", "d", "e", "r">>, TRUE>>, <<<<"o", "k">>, FALSE>>, <<<<"g", "e", "l", "i", "e", "f", "e", "r", "t">>, FALSE>>}
  IN {[status_flags |-> f, status_icon |-> i[1], status_code |-> c[1], bs4 |-> b,
       keyword |-> IF i[1] # << >> THEN i[2] ELSE c[2]] :
        f \in SUBSET {"order_parts", "bestellt", "delivered", "ruckstand", "mandatory"},
        i \in Icons, c \in Codes, b \in BOOLEAN}

SpecMissing ==
  /\ InitCall("is_missing", MissingInputs)
  /\ [][Call("is_missing", is_missing(inp.status_flags, inp.status_icon, inp.status_code))]_vars

\* ------------------------------------------------------------------------
\* build_order_row: missing_parts and the date columns
\* ------------------------------------------------------------------------
MaxParts == 2

\* visual_fields maps the labels read below to their text, << >> for a label
\* that is absent or empty (visual_fields.get(label) or "")
build_order_row(visual_fields, parts_status, parts_list) ==
  LET date_of(text) == _parse_german_date_or_datetime(text).date
      or(a, b) == IF a \notin {Null, << >>} THEN a ELSE b
      parts_status_final == or(parts_status, visual_fields["E-Teile Status"])
      none == search({<<"o", "h", "n", "e", " ", "e", "-", "t", "e", "i", "l", "e">>, <<"o", "h", "n", "e", " ", "e", "t", "e", "i", "l", "e">>}, parts_status_final)
      nicht_da == \E k \in 1 .. (Len(parts_status_final) - 4) :
                    /\ lower(SubSeq(parts_status_final, k, k + 4)) = <<"n", "i", "c", "h", "t">>
                    /\ search({<<"d", "a">>}, SubSeq(parts_status_final, k + 5, Len(parts_status_final)))
      first == IF none THEN 0
               ELSE IF search({<<"f", "e", "h", "l", "t">>, <<"o", "f", "f", "e", "n">>, <<"r", "ü", "c", "k", "s", "t", "a", "n", "d">>, <<"w", "a", "r", "t", "e", "t">>, <<"b", "a", "c", "k", "o", "r", "d", "e", "r">>, <<"u", "n", "v", "o", "l", "l", "s", "t", "ä", "n", "d", "i", "g">>}, parts_status_final) \/ nicht_da THEN 1 ELSE 0
  IN [shop_date |-> or(date_of(visual_fields["Werkstattstart"]), visual_fields["Werkstattstart"]),
      repair_date |-> or(date_of(or(visual_fields["Fahrzeugeingang (Soll)"],
                                    visual_fields["Fahrzeugeingang (Ist)"])), << >>),
      finish_date |-> or(date_of(visual_fields["Termin Fertigstellung"]),
                         visual_fields["Termin Fertigstellung"]),
      planned_delivery_date |-> or(date_of(visual_fields["Plan Auslieferung"]),
                                   visual_fields["Plan Auslieferung"]),
      parts_status |-> parts_status_final,
      missing_parts |-> IF \E k \in DOMAIN parts_list : parts_list[k].is_missing THEN 1 ELSE first]

\* the rows build_order_row is called with: status texts (each with whether
\* it says that no parts are involved and whether it holds a keyword) with
\* up to MaxParts part rows, and date texts (each with the ISO date it stands
\* for, Null when it stands for none) under the five date labels
OrderRowInputs ==
  LET Status == {<<<<>>, FALSE, FALSE>>,
                <<<<"o", "h", "n", "e", " ", "E", "-", "T", "e", "i", "l", "e">>, TRUE, FALSE>>,
                <<<<"O", "h", "n", "e", " ", "E", "t", "e", "i", "l", "e">>, TRUE, FALSE>>,
                <<<<"T", "e", "i", "l", " ", "f", "e", "h", "l", "t">>, FALSE, TRUE>>,
                <<<<"O", "F", "F", "E", "N">>, FALSE, TRUE>>,
                <<<<"n", "i", "c", "h", "t", " ", "a", "l", "l", "e", " ", "d", "a">>, FALSE, TRUE>>,
                <<<<"k", "o", "m", "p", "l", "e", "t", "t">>, FALSE, FALSE>>,
                <<<<"o", "h", "n", "e", " ", "E", "-", "T", "e", "i", "l", "e", ",", " ", "o", "f", "f", "e", "n">>, TRUE, TRUE>>,
                <<<<"d", "a", ",", " ", "n", "i", "c", "h", "t">>, FALSE, FALSE>>}
      Dates == {<<<<>>, Null>>,
               <<<<"5", ".", "3", ".", "2", "0", "2", "5">>, <<"2", "0", "2", "5", "-", "0", "3", "-", "0", "5">>>>,
               <<<<"3", "1", ".", "0", "2", ".", "2", "0", "2", "5">>, Null>>,
               <<<<"2", "0", "2", "5", "-", "0", "3", "-", "0", "5">>, <<"2", "0", "2", "5", "-", "0", "3", "-", "0", "5">>>>,
               <<<<"K", "W", " ", "1", "2">>, Null>>}
      Labels == {"E-Teile Status", "Werkstattstart", "Fahrzeugeingang (Soll)",
                 "Fahrzeugeingang (Ist)", "Termin Fertigstellung", "Plan Auslieferung"}
      Blank == [l \in Labels |-> << >>]
      DateLabels == Labels \ {"E-Teile Status"}
      Lists == UNION {[1 .. n -> {[is_missing |-> b] : b \in BOOLEAN}] : n \in 0 .. MaxParts}
  IN {[visual_fields |-> [Blank EXCEPT !["E-Teile Status"] = e[1]],
       parts_status |-> ps[1], parts_list |-> pl,
       status |-> IF ps[1] # << >> THEN ps ELSE e,
       canon |-> [l \in DateLabels |-> Null]] : ps \in Status, e \in Status, pl \in Lists}
     \cup {[visual_fields |-> [l \in Labels |-> IF l \in DateLabels THEN d[l][1] ELSE << >>],
            parts_status |-> << >>, parts_list |-> << >>,
            status |-> <<<< >>, FALSE, FALSE>>,
            canon |-> [l \in DateLabels |-> d[l][2]]] : d \in [DateLabels -> Dates]}

SpecOrderRow ==
  /\ InitCall("build_order_row", OrderRowInputs)
  /\ [][Call("build_order_row",
             build_order_row(inp.visual_fields, inp.parts_status, inp.parts_list))]_vars

\* ------------------------------------------------------------------------
\* Booking proxy: reserve_appointment, confirm_appointment, full_booking_flow
\* ------------------------------------------------------------------------
\* message.call.id of the requests of call c, or the call_id of its JSON body
call_id_of(c) == <<"call-1", "call-2", "call-3", "call-4">>[c]

\* the steps of full_booking_flow, in the order of its code
FlowSteps == <<"search_days", "search_times", "reserve", "confirm">>

\* ghost: the appointment id of the most recent successful reserve of call c
own(c) ==
  LET mine == {k \in 1 .. Len(reserved) : reserved[k] = c}
  IN IF mine = {} THEN None ELSE CHOOSE k \in mine : \A j \in mine : j <= k

\* what a request of call c leaves in flask.g and returns: g.call_id ("" when the
\* attribute is not set) and the call_id of the returned data ("" when absent)
extract_vapi_params(form, c) ==
  IF form.vapi
    THEN [is_vapi_request |-> TRUE,
          call_id |-> IF form.id THEN call_id_of(c) ELSE "unknown_call",
          data_call_id |-> ""]
    ELSE [is_vapi_request |-> FALSE, call_id |-> "",
          data_call_id |-> IF form.id THEN call_id_of(c) ELSE ""]

\* the request a handler sees when full_booking_flow calls it inside
\* app.test_request_context(json=...): the body is plain JSON without call_id;
\* g is the one of the outer request when the nested context shares the
\* application context, and a new one when the context brings its own
nested(outer) ==
  [is_vapi_request |-> FALSE,
   call_id |-> IF inp.nested_g = "shared" THEN outer.call_id ELSE "",
   data_call_id |-> ""]

success_response(c, route, appointment_id) ==
  [call |-> c, route |-> route, success |-> TRUE, error_code |-> "none", step |-> "none",
   appointment_id |-> appointment_id]

error_response(c, route, error_code, step) ==
  [call |-> c, route |-> route, success |-> FALSE, error_code |-> error_code, step |-> step,
   appointment_id |-> None]

\* get_available_days and get_available_times change no state of the proxy
get_available_days(outcome) ==
  [success |-> outcome # "fault", available_days |-> outcome = "ok"]

get_available_times(outcome) ==
  [success |-> outcome # "fault", available_times |-> outcome = "ok"]

\* reserve_appointment for a request r of call c: the new store, the
\* reservations of the booking system and the response
reserve_appointment(c, r, outcome) ==
  LET appointment_id == Len(reserved) + 1
      call_id == IF r.call_id # "" THEN r.call_id
                 ELSE IF r.data_call_id # "" THEN r.data_call_id ELSE "latest"
      keep(code) == [ACTIVE_RESERVATIONS |-> ACTIVE_RESERVATIONS, reserved |-> reserved,
                     result |-> error_response(c, "reserve", code, "none")]
  IN CASE outcome = "fault" -> keep("SOAP_FAULT")
       [] outcome = "no_id" -> keep("RESERVATION_FAILED")
       [] outcome = "ok" ->
            [ACTIVE_RESERVATIONS |-> (call_id :> appointment_id) @@ ACTIVE_RESERVATIONS,
             reserved |-> Append(reserved, c),
             result |-> success_response(c, "reserve", appointment_id)]

\* confirm_appointment for a request r of call c that carries request_id: what
\* is sent to the booking system and the response
confirm_appointment(c, r, request_id, outcome, route) ==
  LET call_id == IF r.call_id # "" THEN r.call_id
                 ELSE IF r.data_call_id # "" THEN r.data_call_id ELSE "unknown_call"
      stored_id == IF call_id \in DOMAIN ACTIVE_RESERVATIONS
                     THEN ACTIVE_RESERVATIONS[call_id] ELSE None
      appointment_id == IF stored_id # None THEN stored_id ELSE request_id
      confirmAppointment == [route |-> route, appointment_id |-> appointment_id,
                             request_id |-> request_id, own |-> own(c)]
  IN CASE appointment_id = None ->
            [sent |-> sent, result |-> error_response(c, "confirm", "MISSING_APPOINTMENT_ID", "none")]
       [] appointment_id # None /\ outcome = "invalid" ->
            [sent |-> sent, result |-> error_response(c, "confirm", "MISSING_CAR_DATA", "none")]
       [] appointment_id # None /\ outcome = "fault" ->
            [sent |-> confirmAppointment,
             result |-> error_response(c, "confirm", "SOAP_FAULT", "none")]
       [] appointment_id # None /\ outcome = "ok" ->
            [sent |-> confirmAppointment, result |-> success_response(c, "confirm", appointment_id)]

\* the variables of a sync run
sync ==
  <<pc, now, args, projects, submitted, st, res, wtask, sess, cur, apc, ok, fail, con,
    applied, exc, lastres, ac, made, sess_local, rc>>

\* POST /api/booking/reserve of call c
Reserve(c) ==
  /\ fn = "proxy_server"
  /\ ~flows[c].running
  /\ \E outcome \in {"ok", "fault", "no_id"} :
       /\ outcome = "ok" => Len(reserved) < MaxAppointments
       /\ LET x == reserve_appointment(c, extract_vapi_params(inp.forms[c], c), outcome)
          IN /\ ACTIVE_RESERVATIONS' = x.ACTIVE_RESERVATIONS
             /\ reserved' = x.reserved
  /\ UNCHANGED <<sync, fn, inp, out, sent, flows, response, steps>>

\* POST /api/booking/confirm of call c; the request carries no appointment id,
\* or one of those the booking system issued
Confirm(c) ==
  /\ fn = "proxy_server"
  /\ ~flows[c].running
  /\ \E request_id \in {None} \cup (1 .. Len(reserved)), outcome \in {"ok", "invalid", "fault"} :
       LET x == confirm_appointment(c, extract_vapi_params(inp.forms[c], c), request_id,
                                    outcome, "confirm")
       IN sent' = x.sent
  /\ UNCHANGED <<sync, fn, inp, out, ACTIVE_RESERVATIONS, reserved, flows, response, steps>>

\* POST /api/booking/full of call c: the request arrives and is validated
FullStart(c) ==
  /\ fn = "proxy_server"
  /\ ~flows[c].running
  /\ \E valid \in BOOLEAN :
       IF valid
         THEN /\ flows' = [flows EXCEPT ![c] = [NoFlow EXCEPT !.running = TRUE]]
              /\ UNCHANGED <<response, steps>>
         ELSE /\ response' = error_response(c, "full", "MISSING_PARAMETER", "none")
              /\ steps' = << >>
              /\ UNCHANGED flows
  /\ UNCHANGED <<sync, fn, inp, out, ACTIVE_RESERVATIONS, reserved, sent>>

\* full_booking_flow of call c runs its next step; requests of other calls are
\* served by other threads between two steps
full_booking_flow(c) ==
  LET f == flows[c]
      step == FlowSteps[Len(f.steps) + 1]
      r == nested(extract_vapi_params(inp.forms[c], c))
      done(success) == Append(f.steps, [step |-> step, success |-> success])
      continue == /\ flows' = [flows EXCEPT ![c].steps = done(TRUE)]
                  /\ UNCHANGED <<response, steps>>
      stop(error_code) ==
        /\ flows' = [flows EXCEPT ![c] = NoFlow]
        /\ response' = error_response(c, "full", error_code, step)
        /\ steps' = done(FALSE)
  IN /\ fn = "proxy_server"
     /\ f.running
     /\ CASE step = "search_days" ->
               /\ \E outcome \in {"ok", "empty", "fault"} :
                    LET days_data == get_available_days(outcome)
                    IN IF days_data.success /\ days_data.available_days
                         THEN continue ELSE stop("NO_AVAILABILITY")
               /\ UNCHANGED <<ACTIVE_RESERVATIONS, reserved, sent>>
          [] step = "search_times" ->
               /\ \E outcome \in {"ok", "empty", "fault"} :
                    LET times_data == get_available_times(outcome)
                    IN IF times_data.success /\ times_data.available_times
                         THEN continue ELSE stop("NO_AVAILABILITY")
               /\ UNCHANGED <<ACTIVE_RESERVATIONS, reserved, sent>>
          [] step = "reserve" ->
               /\ \E outcome \in {"ok", "fault", "no_id"} :
                    /\ outcome = "ok" => Len(reserved) < MaxAppointments
                    /\ LET x == reserve_appointment(c, r, outcome)
                       IN /\ ACTIVE_RESERVATIONS' = x.ACTIVE_RESERVATIONS
                          /\ reserved' = x.reserved
                          /\ IF x.result.success
                               THEN /\ flows' = [flows EXCEPT ![c].steps = done(TRUE),
                                                             ![c].appointment_id =
                                                               x.result.appointment_id]
                                    /\ UNCHANGED <<response, steps>>
                               ELSE stop("RESERVATION_FAILED")
               /\ UNCHANGED sent
          [] step = "confirm" ->
               /\ \E outcome \in {"ok", "invalid", "fault"} :
                    LET x == confirm_appointment(c, r, f.appointment_id, outcome, "full")
                    IN /\ sent' = x.sent
                       /\ IF x.result.success
                            THEN /\ flows' = [flows EXCEPT ![c] = NoFlow]
                                 /\ response' = success_response(c, "full", f.appointment_id)
                                 /\ steps' = done(TRUE)
                            ELSE stop("CONFIRMATION_FAILED")
               /\ UNCHANGED <<ACTIVE_RESERVATIONS, reserved>>
     /\ UNCHANGED <<sync, fn, inp, out>>

\* per call the form of its requests (VAPI tool call or plain JSON, with or
\* without a call identifier), and what a nested request context does with g
ProxyInputs ==
  [forms : [Calls -> [vapi : BOOLEAN, id : BOOLEAN]], nested_g : {"shared", "fresh"}]

NextProxy ==
  \E c \in Calls : Reserve(c) \/ Confirm(c) \/ FullStart(c) \/ full_booking_flow(c)

SpecProxy == InitCall("proxy_server", ProxyInputs) /\ [][NextProxy]_vars

\* ------------------------------------------------------------------------
\* Properties
\* ------------------------------------------------------------------------
RunEnded == pc \in {"done", "aborted"}

\* the step of cmd_sync that commits the record cur
CommitStep == cur # 0 /\ apc = "commit" /\ st'[cur] = "Persisted"

TransportFailed == {i \in 1 .. N : res[i].error = "transport"}

\* C1: in a run over N records with distinct ids in which exactly one
\* record's fetch raises a transport error and all others succeed, the run
\* ends with ok = N-1 and fail = 1 and the orders table holds a row for each
\* of the N-1 successful records, with one worker and with several.
C1_ConcurrencyIsolation ==
  ( /\ RunEnded
    /\ exc # "sqlite3.Error"
    /\ \A i \in 1 .. N : projects[i] # NoID
    /\ Cardinality(TransportFailed) = 1
    /\ \A i \in (1 .. N) \ TransportFailed : res[i].ok )
  => /\ ok = N - 1
     /\ fail = 1
     /\ \A i \in (1 .. N) \ TransportFailed : \E o \in con.db.orders : o.id = projects[i]

\* three records on two workers, the first one fails, the third is applied
\* before the second
C1_Witness ==
  /\ pc = "done"
  /\ N = 3
  /\ args.jobs = 2
  /\ TransportFailed = {1}
  /\ applied = <<3, 2>>
  /\ ok = 2 /\ fail = 1

\* C2: an error raised while processing one enumerated record, reading its
\* identifier included, never aborts the run, and at the end of the run the
\* record is a counted failure.
RecordError(i) == st[i] = "Raised" \/ res[i].error # "none"

C2_ErrorIsolation ==
  /\ exc # "TypeError"
  /\ pc = "done" => \A i \in 1 .. N : RecordError(i) => st[i] = "Failed"

\* the content of the store apart from last_synced_at
Content(s) ==
  [orders |-> {[id |-> o.id, plate |-> o.plate] : o \in s.orders},
   parts |-> s.parts,
   order_sections |-> {[order_id |-> x.order_id, section |-> x.section, raw_text |-> x.raw_text] :
                         x \in s.order_sections}]

UniqueKeys(s) ==
  /\ \A a, b \in s.orders : a.id = b.id => a = b
  /\ \A a, b \in s.parts : SamePartKey(a, b) => a = b
  /\ \A a, b \in s.order_sections : (a.order_id = b.order_id /\ a.section = b.section) => a = b

\* every natural key of the result r has a row in the store s
KeysPresent(s, r) ==
  /\ \E o \in s.orders : o.id = r.pid
  /\ \A k \in 1 .. Len(r.parts_list) :
       \E x \in s.parts : SamePartKey(x, PartRow(r.pid, r.parts_list[k]))
  /\ \A n \in r.sections :
       \E x \in s.order_sections : x.order_id = r.pid /\ x.section = n.section

\* the same source data: equal results up to the time stamp of the row
SameSource(r, q) ==
  /\ r.ok /\ q.ok
  /\ [r EXCEPT !.row.last_synced_at = 0] = [q EXCEPT !.row.last_synced_at = 0]

\* C3: syncing a record again with the source data of its last sync leaves
\* exactly one row per natural key in orders, parts and order_sections, and
\* the content of the rows, apart from last_synced_at, is as it was.
C3_UpsertIdempotence ==
  [][ (CommitStep /\ SameSource(res[cur], lastres[res[cur].pid]))
        => /\ Content(con'.db) = Content(con.db)
           /\ UniqueKeys(con'.db)
           /\ KeysPresent(con'.db, res[cur]) ]_vars

\* the second sync of the same data, with parts and sections, has written
\* its rows and is about to commit them
C3_Witness ==
  /\ cur # 0 /\ apc = "commit"
  /\ SameSource(res[cur], lastres[res[cur].pid])
  /\ Len(res[cur].parts_list) = 2
  /\ Cardinality(res[cur].sections) = 2
  /\ con.tx # con.db
  /\ Content(con.tx) = Content(con.db)

StoredParts(s, pid) == {x \in s.parts : x.order_id = pid}

ListedParts(r) == {PartRow(r.pid, r.parts_list[k]) : k \in 1 .. Len(r.parts_list)}

\* C4: after any sync that persists order X the parts rows stored for X are
\* the parts of that sync: every stored row is a row of the latest list (none
\* of an earlier sync survives, also when the latest list is shorter or
\* empty) and every key of the latest list is stored. Stated for the syncs
\* that fetch parts (--with-parts or --full).
C4_PartsFullReplacement ==
  [][ (CommitStep /\ NeedParts)
        => /\ StoredParts(con'.db, res[cur].pid) \subseteq ListedParts(res[cur])
           /\ \A r \in ListedParts(res[cur]) :
                \E x \in StoredParts(con'.db, res[cur].pid) : SamePartKey(x, r) ]_vars

StoredSections(s, pid) ==
  {[section |-> x.section, raw_text |-> x.raw_text] : x \in {y \in s.order_sections : y.order_id = pid}}

\* C5: after any sync that persists order X the order_sections rows stored
\* for X are exactly the sections fetched by that sync. Stated for the syncs
\* that fetch sections (--full).
C5_SectionsWholesaleReplacement ==
  [][ (CommitStep /\ args.full)
        => StoredSections(con'.db, res[cur].pid) = res[cur].sections ]_vars

\* the rows of the result r, as this sync writes them, are all in the store s
RecordWritten(s, r, t) ==
  /\ r.row \in s.orders
  /\ ListedParts(r) \subseteq s.parts
  /\ \A n \in r.sections :
       [order_id |-> r.pid, section |-> n.section, raw_text |-> n.raw_text,
        last_synced_at |-> t] \in s.order_sections
  /\ \A e \in r.emp_map : [id |-> e[1], name |-> e[2]] \in s.employees

\* no parts or sections row without the orders row of its sync or a later one
NoOrphans(s) ==
  /\ \A x \in s.parts : \E o \in s.orders : o.id = x.order_id
  /\ \A x \in s.order_sections :
       \E o \in s.orders : o.id = x.order_id /\ o.last_synced_at >= x.last_synced_at

\* C6: the committed store changes only by the commit of a whole record:
\* then it holds the record's order row, parts, sections and employees
\* together; at every other step, a failing write included, it stays as it
\* was. So it never holds child rows without their order row.
C6_PerRecordAtomicity ==
  /\ [](NoOrphans(con.db))
  /\ [][ con'.db # con.db
           => /\ CommitStep
              /\ con'.db = con.tx
              /\ RecordWritten(con'.db, res[cur], now) ]_vars

\* a write of the second applied record failed after the first record was
\* committed: the store holds the first record and nothing of the second
C6_Witness ==
  /\ exc = "sqlite3.Error"
  /\ Len(applied) = 1
  /\ \E i \in 1 .. N :
       /\ st[i] = "Returned" /\ res[i].ok
       /\ res[i].sections # {}
       /\ \A o \in con.db.orders : o.id # res[i].pid
       /\ StoredParts(con.db, res[i].pid) = {}
       /\ StoredSections(con.db, res[i].pid) = {}
  /\ con.db.orders # {}

FtsInStep(s) == s.orders_fts = {FtsEntry(o) : o \in s.orders}

\* C7: after any sequence of inserts, updates and deletes on orders the
\* full-text index holds, for each existing order, exactly the current values
\* of its indexed columns, and nothing for an id that is not in orders.
C7_FtsConsistency == FtsInStep(con.db) /\ FtsInStep(con.tx)

\* order 1 was inserted in the first run (with the employee name n2) and
\* updated to another plate in the second; order 2 was inserted in the first
\* run and deleted afterwards
C7_Witness ==
  /\ con.db.orders = {[id |-> 1, plate |-> "p1", last_synced_at |-> 2]}
  /\ con.db.orders_fts = {[rowid |-> 1, plate |-> "p1"]}
  /\ [id |-> "e1", name |-> "n2"] \in con.db.employees
  /\ lastres[2].ok /\ lastres[2].row.last_synced_at = 1 /\ lastres[2].emp_map = {}

\* C8: when a run is over, every enumerated record is in exactly one terminal
\* state, Persisted (counted in ok) or Failed (counted in fail), and ok + fail
\* is the number of enumerated records.
C8_RecordStateMachine ==
  (RunEnded /\ exc # "sqlite3.Error")
    => /\ \A i \in 1 .. N : st[i] \in Terminal
       /\ ok = Cardinality({i \in 1 .. N : st[i] = "Persisted"})
       /\ fail = Cardinality({i \in 1 .. N : st[i] = "Failed"})
       /\ ok + fail = N

\* C9: once a store write has raised, the run is aborting or aborted, the
\* record is counted neither in ok nor in fail, and nothing more is applied
\* to the store or counted in this run.
C9_PersistenceErrorFatal ==
  /\ [](exc = "sqlite3.Error"
          => /\ pc \in {"draining", "aborted"}
             /\ cur = 0
             /\ ok + fail = Cardinality({i \in 1 .. N : st[i] \in Terminal})
             /\ \E i \in 1 .. N : st[i] = "Returned" /\ res[i].ok)
  /\ [][ (exc = "sqlite3.Error" /\ exc' = "sqlite3.Error")
           => /\ con' = con
              /\ ok' = ok /\ fail' = fail
              /\ applied' = applied ]_vars

\* a parallel run aborted by a store error with two successful results that
\* were never applied
C9_Witness ==
  /\ exc = "sqlite3.Error"
  /\ pc = "aborted"
  /\ args.jobs = 2
  /\ Cardinality({i \in 1 .. N : st[i] = "Returned" /\ res[i].ok}) = 2
  /\ ok = 1

C11_ExitCode ==
  (rc # NoExit /\ exc # "sqlite3.Error")
    => /\ (rc = 0) <=> (fail = 0)
       /\ (rc # 0) <=> (\E i \in 1 .. N : RecordError(i))
       /\ \A i \in 1 .. N : st[i] \in Terminal

\* C11 for the runs in which every enumerated record has an 'ID'
C11_ExitCodeWithIds ==
  (\A i \in 1 .. N : projects[i] # NoID) => C11_ExitCode

\* a step of a sync_one call: a thread takes or gives back a record, or the
\* record moves on in its pipeline
WorkerStep ==
  /\ now' = now
  /\ \/ wtask' # wtask
     \/ \E i \in 1 .. N : st'[i] # st[i] /\ st'[i] \in {"Fetching", "Parsing", "Returned", "Raised"}

\* the rows written in the open transaction and not committed yet
PendingRows ==
  [orders |-> con.tx.orders \ con.db.orders,
   parts |-> con.tx.parts \ con.db.parts,
   order_sections |-> con.tx.order_sections \ con.db.order_sections]

\* all of them are rows of the order pid
PendingOf(pid) ==
  /\ \A o \in PendingRows.orders : o.id = pid
  /\ \A x \in PendingRows.parts : x.order_id = pid
  /\ \A y \in PendingRows.order_sections : y.order_id = pid

\* C12: the store is written only by cmd_sync's apply block, never by a step
\* of sync_one, whatever the number of workers; uncommitted writes exist only
\* while the orchestrator applies one record, they all belong to that
\* record, and they are committed (or lost with the run) before the next
\* result is taken.
C12_WriteSerialization ==
  /\ [](cur = 0 => con.tx = con.db)
  /\ [](cur # 0 => PendingOf(res[cur].pid))
  /\ [][WorkerStep => con' = con]_vars
  /\ [][con' # con => (cur # 0 /\ now' = now /\ wtask' = wtask)]_vars

\* two workers: the first result is committed, the orchestrator has written
\* rows of the second and not committed them, and a worker is still in the
\* pipeline of a third record
C12_Witness ==
  /\ args.jobs = 2
  /\ Len(applied) = 1
  /\ cur # 0 /\ apc = "commit"
  /\ PendingRows.orders # {} /\ PendingRows.order_sections # {}
  /\ \E w \in Workers : wtask[w] \notin {0, cur}

\* the first row of the sequence c with the key of c[k]
FirstOf(c, k) ==
  c[CHOOSE j \in 1 .. k : KeyOf(c[j]) = KeyOf(c[k]) /\ \A h \in 1 .. (j - 1) : KeyOf(c[h]) # KeyOf(c[k])]

\* C13: when the rows collected for an order name a key (part number,
\* description) more than once, the parts stored for the order hold exactly
\* one row for the key, and it is the first row collected with that key,
\* whichever pattern or candidate endpoint the rows come from.
C13_PartsDedupFirst ==
  [][ (CommitStep /\ NeedParts)
        => \A k \in 1 .. Len(res[cur].collected) :
             {x \in StoredParts(con'.db, res[cur].pid) :
                SamePartKey(x, PartRow(res[cur].pid, res[cur].collected[k]))}
               = {PartRow(res[cur].pid, FirstOf(res[cur].collected, k))} ]_vars

\* C14: _build_section_payload returns a payload for every body and declared
\* content type and never raises: an object with "html" text or with
\* sub-sections of any content gives parsed data, every other shape gives
\* opaque json or text.
C14_UnwrapperTotal ==
  (fn = "_build_section_payload" /\ out # Unset)
    => /\ out.kind = "payload"
       /\ out.shape \in {"parsed", "sections", "json", "text"}
       /\ inp.text.kind \in {"array", "scalar", "broken", "plain"} => out.shape \in {"json", "text"}

\* C15: _parse_german_date_or_datetime never raises and returns the input
\* (stripped) as the date for an ISO date YYYY-MM-DD, the ISO date for
\* DD.MM.YYYY, the ISO date and date-time for DD.MM.YYYY HH:MM:SS, and
\* (None, None) for every other string, those of one of the three shapes
\* that name no real date or time included.
C15_ParseLocalDate ==
  (fn = "_parse_german_date_or_datetime" /\ out # Unset)
    => LET real == IsDateTime(inp.y, inp.mo, inp.d, inp.hh, inp.mm, inp.ss)
       IN /\ out.date = (CASE inp.shape = "iso" /\ real -> strip(inp.text)
                            [] inp.shape \in {"de", "dedt"} /\ real ->
                                 Pad(inp.y, 4) \o <<"-">> \o Pad(inp.mo, 2) \o <<"-">> \o Pad(inp.d, 2)
                            [] OTHER -> Null)
          /\ out.datetime = (CASE inp.shape = "dedt" /\ real ->
                                   Pad(inp.y, 4) \o <<"-">> \o Pad(inp.mo, 2) \o <<"-">> \o Pad(inp.d, 2)
                                     \o <<"T">> \o Pad(inp.hh, 2) \o <<":">> \o Pad(inp.mm, 2)
                                     \o <<":">> \o Pad(inp.ss, 2)
                                [] OTHER -> Null)

\* C16: _to_float_de never raises, returns the number the string stands for
\* when the string is a local decimal ('.' between thousands, ',' before the
\* cents), and returns None for every string with anything in it that is no
\* part of such a number: letters, nan, inf, an exponent, an underscore,
\* nothing at all.
C16_ParseLocalDecimal ==
  (fn = "_to_float_de" /\ out # Unset)
    => IF inp.shape = "decimal"
         THEN /\ out.kind = "float"
              /\ LET unit == 10 ^ inp.scale
                 IN IF out.den >= unit THEN out.num = inp.units * (out.den \div unit)
                    ELSE out.num * (unit \div out.den) = inp.units
         ELSE out.kind = "None"

\* C17: parse_station returns (id, state) for a token <digits>@<word>, the
\* id as a number and the word in lower case, and (None, None) for every other
\* text; the two components are always both None or both not None.
C17_StationToken ==
  (fn = "parse_station" /\ out # Unset)
    => LET t == strip(inp)
           at == {k \in DOMAIN t : t[k] = "@"}
           WellFormed == \E k \in at :
                           /\ at = {k} /\ 1 < k /\ k < Len(t)
                           /\ \A h \in 1 .. (k - 1) : \E d \in DOMAIN Digits : Digits[d] = t[h]
                           /\ \A h \in (k + 1) .. Len(t) : t[h] \in WordChars
       IN /\ (out.station_id = {}) <=> (out.station_state = {})
          /\ WellFormed =>
               LET k == CHOOSE h \in at : TRUE
               IN out = Station({int(SubSeq(t, 1, k - 1))}, {lower(SubSeq(t, k + 1, Len(t)))})
          /\ ~WellFormed => out = Station({}, {})

\* "4@aF" was parsed to (4, "af")
C17_Witness ==
  /\ fn = "parse_station" /\ inp = <<"4", "@", "a", "F">>
  /\ out = Station({4}, {<<"a", "f">>})

\* C18: a query returns the matching rows by shop_date descending, id
\* descending among equal dates, and never more than the cap of 200 rows: the
\* first 200 when no limit is given, and no more than 200 whatever limit is
\* asked for, negative or very large.
C18_QueryCapOrder ==
  (fn = "cmd_query" /\ out # Unset)
    => /\ \A k \in 1 .. (Len(out.rows) - 1) :
            \/ out.rows[k].shop_date > out.rows[k + 1].shop_date
            \/ /\ out.rows[k].shop_date = out.rows[k + 1].shop_date
               /\ out.rows[k].id > out.rows[k + 1].id
       /\ \A k \in DOMAIN out.rows :
            /\ out.rows[k] \in inp.db.orders
            /\ inp.args.missing_parts => out.rows[k].missing_parts = 1
       /\ Len(out.rows) <= DefaultLimit
       /\ inp.args.limit = {} =>
            \/ Len(out.rows) = DefaultLimit
            \/ Len(out.rows) = Cardinality({r \in inp.db.orders :
                                         inp.args.missing_parts => r.missing_parts = 1})

\* the serial loop takes the result of record i after all records before it
InSubmissionOrder(i) == \A h \in 1 .. (i - 1) : st[h] \in Terminal

\* C19 (as stated): with one worker the results are applied in submission
\* order; with several workers every result applied is the one that
\* completed first among those not yet applied.
C19_ApplyOrder ==
  [][\A i \in 1 .. N :
       TakeResult(i) => IF Parallel THEN i = Head(ac.finished) ELSE InSubmissionOrder(i)]_vars

\* C19 (amended): with one worker the results are applied in submission
\* order; with several workers the results that were complete when the
\* collection of results began are applied first, in any order, and every
\* result that completes later is applied in completion order.
C19_ApplyOrderCollected ==
  /\ [](ac.early # {} =>
          /\ ac.entered
          /\ \A i \in ac.early : st[i] \in {"Returned", "Raised"}
          /\ \A i \in ac.early : \E k \in DOMAIN ac.finished : ac.finished[k] = i)
  /\ [][\A i \in 1 .. N :
         TakeResult(i) =>
           IF Parallel
             THEN /\ ac.early # {} => i \in ac.early
                  /\ ac.early = {} => i = Head(ac.finished)
             ELSE InSubmissionOrder(i)]_vars

\* two workers, three records: record 3 was started when record 1 had
\* completed (record 2 is still with its worker), both were complete when the
\* collection began, and record 3 has been applied while record 1 waits
C19_Witness ==
  /\ args.jobs = 2 /\ N = 3
  /\ ac.entered /\ 1 \in ac.early
  /\ st[1] = "Returned"
  /\ st[2] \in {"Fetching", "Parsing"}
  /\ applied = <<3>>

\* C20: every worker fetches with a session of its own, made by that worker
\* when it takes its first record and used again for each later record; no
\* two workers ever hold the same session object, and no worker makes more
\* than one session in a run.
C20_SessionOwnership ==
  \A w \in 1 .. MaxJobs :
    /\ made[w] <= 1
    /\ (made[w] = 0) <=> (sess[w] = NoSession)
    /\ sess[w] # NoSession =>
         /\ sess[w] = _mk_session(w, 1)
         /\ w \in Workers
         /\ \E i \in 1 .. N : st[i] \notin {"Pending", "Raised"}
    /\ wtask[w] # 0 => sess_local[w] = sess[w] /\ sess[w] # NoSession
    /\ sess_local[w] \in {NoSession, sess[w]}
    /\ \A v \in (1 .. MaxJobs) \ {w} :
         /\ sess[w] # NoSession => sess[v] # sess[w] /\ sess_local[v] # sess[w]
         /\ wtask[w] # 0 /\ wtask[v] # 0 => sess_local[v] # sess_local[w]

\* two workers with a session each are fetching at the same time, one of
\* them its second record with the session it made for its first
C20_Witness ==
  /\ args.jobs = 2 /\ N = 3
  /\ sess[1] # NoSession /\ sess[2] # NoSession /\ sess[1] # sess[2]
  /\ made = [w \in 1 .. MaxJobs |-> IF w <= 2 THEN 1 ELSE 0]
  /\ \E w, v \in Workers :
       /\ w # v
       /\ wtask[w] = 3 /\ sess_local[w] = sess[w]
       /\ wtask[v] = 2 /\ sess_local[v] = sess[v]

\* C21: a pattern-engine error raised while the form fragment of a record is
\* parsed does not fail the record: its result is a success with a warning
\* and an empty field map (the plate falls back to the short name), and the
\* record is persisted and counted in ok, never in fail.
C21_ParserErrorNonFatal ==
  \A i \in 1 .. N :
    /\ res[i].error # "re.error"
    /\ res[i].warn =>
         /\ res[i].ok /\ res[i].error = "none"
         /\ res[i].row.plate = "sn"
         /\ st[i] \in {"Returned", "Persisted"}
         /\ fail = 0
         /\ (pc = "done" /\ exc = "none") => st[i] = "Persisted"
         /\ st[i] = "Persisted" =>
              /\ ok = 1
              /\ \E o \in con.db.orders : o.id = res[i].pid /\ o.plate = "sn"

\* a run ended with the record persisted from a result that carries the
\* warning
C21_Witness ==
  /\ pc = "done" /\ ok = 1 /\ fail = 0
  /\ \E i \in 1 .. N :
       /\ res[i].warn /\ st[i] = "Persisted"
       /\ \E o \in con.db.orders : o.id = res[i].pid /\ o.plate = "sn"

\* C22: when a fragment holds a label several times, both field extractors,
\* with the tree parser and with the regex fallback, give the label the value
\* of its first occurrence, also when that value is empty (a label without an
\* entry counts as empty); later occurrences change nothing.
C22_FirstLabelWins ==
  (fn \in {"parse_visual_forms_plain_fields", "_parse_html_label_value_pairs"} /\ out # Unset)
    => \A k \in DOMAIN inp.labels :
         (\A h \in 1 .. (k - 1) : inp.labels[h][1] # inp.labels[k][1])
           => /\ \A f \in out.fields : f[1] = inp.labels[k][1] => f[2] = inp.labels[k][2]
              /\ inp.labels[k][2] # "" => inp.labels[k] \in out.fields

\* C23: for every combination of the flags and of the keyword match,
\* is_missing is (backorder or ((to-order or ordered) and not delivered) or
\* keyword match), forced to false when delivered and not backorder; so
\* backorder implies is_missing and delivered without backorder implies not
\* is_missing, in the tree-based and in the regex-based parser alike.
C23_IsMissing ==
  (fn = "is_missing" /\ out # Unset)
    => LET to_order == "order_parts" \in inp.status_flags
           ordered == "bestellt" \in inp.status_flags
           delivered == "delivered" \in inp.status_flags
           backorder == "ruckstand" \in inp.status_flags
       IN /\ out.is_missing =
               ((backorder \/ ((to_order \/ ordered) /\ ~delivered) \/ inp.keyword)
                  /\ ~(delivered /\ ~backorder))
          /\ backorder => out.is_missing
          /\ (delivered /\ ~backorder) => ~out.is_missing

\* a delivered part without backorder whose status text holds a keyword is
\* not missing
C23_Witness ==
  /\ fn = "is_missing" /\ out # Unset
  /\ inp.status_flags = {"bestellt", "delivered"}
  /\ inp.keyword /\ inp.status_icon # << >>
  /\ ~out.is_missing

\* C24: missing_parts is true when the parts status holds a keyword for
\* missing parts or a part row is missing, and false when the status says
\* that no parts are involved, whatever the part rows say.
C24_MissingPartsPrecedence ==
  (fn = "build_order_row" /\ out # Unset)
    => out.missing_parts =
         IF inp.status[2] THEN 0
         ELSE IF inp.status[3] \/ \E k \in DOMAIN inp.parts_list : inp.parts_list[k].is_missing
                THEN 1 ELSE 0

\* C25: each of shop_date, repair_date, finish_date and
\* planned_delivery_date holds the ISO date of its source field when the
\* field stands for a date, and the text of the source field otherwise
\* (empty only when the field is absent or empty).
C25_DateColumns ==
  (fn = "build_order_row" /\ out # Unset)
    => LET column(l, v) ==
             v = IF inp.canon[l] # Null THEN inp.canon[l] ELSE inp.visual_fields[l]
           arrival == IF inp.visual_fields["Fahrzeugeingang (Soll)"] # << >>
                        THEN "Fahrzeugeingang (Soll)" ELSE "Fahrzeugeingang (Ist)"
       IN /\ column("Werkstattstart", out.shop_date)
          /\ column(arrival, out.repair_date)
          /\ column("Termin Fertigstellung", out.finish_date)
          /\ column("Plan Auslieferung", out.planned_delivery_date)

\* the orders that satisfy the structured filters of the query
Filtered ==
  {r \in inp.db.orders :
     /\ like(r.plate, inp.args.plate)
     /\ inp.args.missing_parts => r.missing_parts = 1}

\* C26: a free-text query scans with LIKE only when the text gives no token
\* or the index raises; otherwise, also when the index matches no row, the
\* result is exactly the orders whose id the index returned and that satisfy
\* every structured filter.
C26_FreeTextPath ==
  (fn = "cmd_query" /\ out # Unset /\ inp.args.text # << >>)
    => LET tokens == findall(strip(inp.args.text), << >>)
           rows == {out.rows[k] : k \in DOMAIN out.rows}
       IN IF tokens = << >> \/ ~inp.db.fts
            THEN rows = {r \in Filtered : like(r.plate, strip(inp.args.text))}
            ELSE rows = {r \in Filtered : r.id \in fts_rows(inp.db, tokens)}

\* C27: when a free-text query comes with structured filters, every order
\* that matches all tokens in the index and satisfies the filters is in the
\* result, provided there are no more of them than the limit.
C27_QueryCompleteness ==
  (fn = "cmd_query" /\ out # Unset /\ inp.db.fts /\ inp.args.plate # << >>
     /\ findall(strip(inp.args.text), << >>) # << >>)
    => LET wanted == Filtered \cap matches(inp.db.orders, findall(strip(inp.args.text), << >>))
       IN Cardinality(wanted) <= DefaultLimit
            => \A r \in wanted : \E k \in DOMAIN out.rows : out.rows[k] = r

\* the connection after the results of the records 1 .. k have been applied
\* one after the other in submission order, as the serial branch does
RECURSIVE AppliedInOrder(_)
AppliedInOrder(k) ==
  IF k = 0 THEN [db |-> EmptyStore, tx |-> EmptyStore]
  ELSE LET c0 == AppliedInOrder(k - 1)
           r == res[k]
           c1 == IF r.emp_map # {} THEN db_upsert_employees(c0, r.emp_map) ELSE c0
           c2 == IF r.parts_list # << >> THEN db_replace_parts(c1, r.pid, r.parts_list) ELSE c1
           c3 == IF r.sections # {} THEN db_upsert_sections(c2, r.pid, r.sections, now) ELSE c2
       IN IF r.ok THEN commit(db_upsert_order(c3, r.row)) ELSE c0

\* C28: for the same results of the records, a run that ends leaves the
\* same committed store (orders, parts, order_sections, employees, without
\* timestamps) and the same ok and fail counts whether it ran with one
\* worker or with several, whatever the order of completion.
C28_ModeEquivalence ==
  (pc = "done" /\ exc = "none")
    => /\ Content(con.db) = Content(AppliedInOrder(N).db)
       /\ con.db.employees = AppliedInOrder(N).db.employees
       /\ ok = Cardinality({i \in 1 .. N : res[i].ok})
       /\ fail = Cardinality({i \in 1 .. N : ~res[i].ok})

\* C29: whatever the interleaving of reserve and confirm requests of several
\* calls, the appointment id a confirm sends to the booking system for a call
\* is the id of the most recent successful reserve of that call when there is
\* one, and the id the request carries otherwise; calls without identifier
\* and plain JSON requests included
C29_ReservationIsolation ==
  sent # NoSent =>
    sent.appointment_id = IF sent.own # None THEN sent.own ELSE sent.request_id

\* C30: the full booking flow runs search days, search times, reserve and
\* confirm in this order, stops at the first step that fails with an error
\* that names the step, confirms with the appointment id its own reserve
\* returned, and reports success only when all four steps succeeded
C30_FullBookingFlow ==
  /\ \A c \in Calls :
       LET ran == flows[c].steps
       IN /\ Len(ran) < Len(FlowSteps)
          /\ \A k \in 1 .. Len(ran) : ran[k].step = FlowSteps[k] /\ ran[k].success
  /\ Len(steps) <= Len(FlowSteps)
  /\ \A k \in 1 .. Len(steps) : steps[k].step = FlowSteps[k]
  /\ \A k \in 1 .. Len(steps) - 1 : steps[k].success
  /\ IF response.success
       THEN /\ Len(steps) = Len(FlowSteps)
            /\ steps[Len(steps)].success
       ELSE \/ steps = << >> /\ response.step = "none"
            \/ /\ steps # << >>
               /\ ~steps[Len(steps)].success
               /\ response.step = steps[Len(steps)].step
  /\ sent.route = "full" =>
       /\ sent.request_id # None
       /\ sent.appointment_id = sent.request_id

\* ------------------------------------------------------------------------
\* Type invariant
\* ------------------------------------------------------------------------
TypeOK ==
  /\ pc \in {"idle", "running", "draining", "done", "aborted"}
  /\ now \in 0 .. MaxRuns
  /\ submitted \in 0 .. N
  /\ cur \in 0 .. N
  /\ ok \in 0 .. N
  /\ fail \in 0 .. N
  /\ exc \in {"none", "TypeError", "sqlite3.Error"}

====
